---------------------------- MODULE Spec2Model ----------------------------
(***************************************************************************)
(* A model of the environment-state reconciliation engine of app.py:       *)
(* version detection and comparison, the latest-version cache with its     *)
(* background refresher, the environment writer, the ccui wrapper          *)
(* installer and PATH reconciliation.                                      *)
(*                                                                         *)
(* Python strings are TLA+ strings; TLC evaluates Len, \o, SubSeq, Head    *)
(* and Tail on them, so splitting, searching and comparing are computed    *)
(* character by character as the code computes them.                       *)
(***************************************************************************)
EXTENDS Integers, Sequences, FiniteSets, TLC

(***************************************************************************)
(* Strings                                                                 *)
(***************************************************************************)

UpperLetters == "ABCDEFGHIJKLMNOPQRSTUVWXYZ"

LowerLetters == "abcdefghijklmnopqrstuvwxyz"

Digits == "0123456789"

\* s[i - 1], or "" when i is not an index of s.
CharAt(s, i) == IF i >= 1 /\ i <= Len(s) THEN SubSeq(s, i, i) ELSE ""

IndexIn(c, alphabet) ==
    IF \E i \in 1..Len(alphabet) : CharAt(alphabet, i) = c
    THEN CHOOSE i \in 1..Len(alphabet) : CharAt(alphabet, i) = c
    ELSE 0

\* The code points of the punctuation the model's strings use.
Punctuation ==
    << <<"\n", 10>>, <<" ", 32>>, <<"\"", 34>>, <<"#", 35>>, <<"$", 36>>, <<"%", 37>>,
       <<"(", 40>>, <<")", 41>>, <<"*", 42>>, <<"+", 43>>, <<",", 44>>, <<"-", 45>>,
       <<".", 46>>, <<"/", 47>>, <<":", 58>>, <<";", 59>>, <<"=", 61>>, <<"@", 64>>,
       <<"\\", 92>>, <<"_", 95>>, <<"{", 123>>, <<"}", 125>>, <<"~", 126>> >>

\* ord(c)
Ord(c) ==
    IF IndexIn(c, Digits) > 0 THEN 47 + IndexIn(c, Digits)
    ELSE IF IndexIn(c, UpperLetters) > 0 THEN 64 + IndexIn(c, UpperLetters)
    ELSE IF IndexIn(c, LowerLetters) > 0 THEN 96 + IndexIn(c, LowerLetters)
    ELSE LET k == CHOOSE i \in 1..Len(Punctuation) : Punctuation[i][1] = c
         IN  Punctuation[k][2]

IsDigit(c) == IndexIn(c, Digits) > 0

DigitVal(c) == IndexIn(c, Digits) - 1

\* The lower-case letter of each upper-case letter.
LowerOf ==
    [c \in {CharAt(UpperLetters, i) : i \in 1..Len(UpperLetters)} |->
        CharAt(LowerLetters, IndexIn(c, UpperLetters))]

\* c.lower()
LowerChar(c) == IF c \in DOMAIN LowerOf THEN LowerOf[c] ELSE c

RECURSIVE Lower(_)
\* s.lower()
Lower(s) == IF s = "" THEN "" ELSE LowerChar(Head(s)) \o Lower(Tail(s))

\* s.startswith(p)
StartsWith(s, p) == Len(p) <= Len(s) /\ SubSeq(s, 1, Len(p)) = p

\* The least 1-based index at which sub occurs in s from index `from` on; 0 when none.
FindFrom(s, sub, from) ==
    LET hits == {i \in from..(Len(s) - Len(sub) + 1) : SubSeq(s, i, i + Len(sub) - 1) = sub}
    IN  IF hits = {} THEN 0 ELSE CHOOSE i \in hits : \A j \in hits : i <= j

\* sub in s
Contains(s, sub) == FindFrom(s, sub, 1) > 0

\* All the 1-based indices at which sub occurs in s.
Occurrences(s, sub) ==
    {i \in 1..(Len(s) - Len(sub) + 1) : SubSeq(s, i, i + Len(sub) - 1) = sub}

RECURSIVE SplitAt(_, _, _, _)
\* The pieces of s from index `from` on, cut at the leftmost occurrences (of
\* length n, among `hits`) that do not overlap.
SplitAt(s, hits, n, from) ==
    LET rest == {i \in hits : i >= from}
        i == CHOOSE x \in rest : \A y \in rest : x <= y
    IN  IF rest = {} THEN <<SubSeq(s, from, Len(s))>>
        ELSE <<SubSeq(s, from, i - 1)>> \o SplitAt(s, hits, n, i + n)

\* s.split(sep) for a non-empty separator: the list of pieces, empty ones kept.
Split(s, sep) == SplitAt(s, Occurrences(s, sep), Len(sep), 1)

IsSpace(c) == c \in {" ", "\n", "\t"}

RECURSIVE LStrip(_)
LStrip(s) == IF s # "" /\ IsSpace(Head(s)) THEN LStrip(Tail(s)) ELSE s

RECURSIVE RStrip(_)
RStrip(s) ==
    IF s # "" /\ IsSpace(CharAt(s, Len(s))) THEN RStrip(SubSeq(s, 1, Len(s) - 1)) ELSE s

\* s.strip()
Strip(s) == LStrip(RStrip(s))

RECURSIVE Join(_, _)
\* sep.join(parts)
Join(parts, sep) ==
    IF parts = <<>> THEN ""
    ELSE IF Len(parts) = 1 THEN parts[1]
    ELSE parts[1] \o sep \o Join(Tail(parts), sep)

RECURSIVE Repeat(_, _)
\* c * n
Repeat(c, n) == IF n <= 0 THEN "" ELSE c \o Repeat(c, n - 1)

RECURSIVE StrLess(_, _)
\* a < b on Python strings: lexicographic by code point, a proper prefix first.
StrLess(a, b) ==
    IF b = "" THEN FALSE
    ELSE IF a = "" THEN TRUE
    ELSE IF Ord(Head(a)) # Ord(Head(b)) THEN Ord(Head(a)) < Ord(Head(b))
    ELSE StrLess(Tail(a), Tail(b))

(***************************************************************************)
(* Versions: extract_semver and compare_semver                             *)
(***************************************************************************)

\* The end of the longest run of digits of s that starts at i (i - 1 when none).
DigitsEnd(s, i) ==
    LET stops == {j \in i..(Len(s) + 1) : j = Len(s) + 1 \/ ~IsDigit(CharAt(s, j))}
    IN  (CHOOSE j \in stops : \A k \in stops : j <= k) - 1

\* The end of the match of (\d+)\.(\d+)\.(\d+) that starts at i, or 0.  Each \d+
\* is greedy, and giving digits back never helps: what follows must be a dot.
SemverMatchEnd(s, i) ==
    LET e1 == DigitsEnd(s, i)
        e2 == DigitsEnd(s, e1 + 2)
        e3 == DigitsEnd(s, e2 + 2)
    IN  IF /\ e1 >= i
           /\ CharAt(s, e1 + 1) = "."
           /\ e2 >= e1 + 2
           /\ CharAt(s, e2 + 1) = "."
           /\ e3 >= e2 + 2
        THEN e3 ELSE 0

\* A mutant of extract_semver: the last match instead of the first.
extract_semver_last(text) ==
    LET starts == {i \in 1..Len(text) : SemverMatchEnd(text, i) > 0}
    IN  IF starts = {} THEN ""
        ELSE LET i == CHOOSE k \in starts : \A j \in starts : k >= j
             IN  SubSeq(text, i, SemverMatchEnd(text, i))

\* re.search(r"(\d+)\.(\d+)\.(\d+)", text): the leftmost match, or "".
extract_semver(text) ==
    LET starts == {i \in 1..Len(text) : SemverMatchEnd(text, i) > 0}
    IN  IF starts = {} THEN ""
        ELSE LET i == CHOOSE k \in starts : \A j \in starts : k <= j
             IN  SubSeq(text, i, SemverMatchEnd(text, i))

\* Whether int(x) parses: an optional sign and at least one digit (surrounding
\* white space, which int() also accepts, is stripped first).
IsPyInt(x) ==
    LET t == Strip(x)
        d == IF t # "" /\ Head(t) \in {"+", "-"} THEN Tail(t) ELSE t
    IN  d # "" /\ \A i \in 1..Len(d) : IsDigit(CharAt(d, i))

RECURSIVE DigitsValue(_)
DigitsValue(d) ==
    IF d = "" THEN 0
    ELSE 10 * DigitsValue(SubSeq(d, 1, Len(d) - 1)) + DigitVal(CharAt(d, Len(d)))

\* int(x), for x with IsPyInt(x).
PyInt(x) ==
    LET t == Strip(x)
    IN  IF Head(t) = "-" THEN 0 - DigitsValue(Tail(t))
        ELSE IF Head(t) = "+" THEN DigitsValue(Tail(t))
        ELSE DigitsValue(t)

\* (a > b) - (a < b) on strings
StrCmp(a, b) == IF StrLess(a, b) THEN -1 ELSE IF StrLess(b, a) THEN 1 ELSE 0

RECURSIVE ZipCmp(_, _)
\* The loop over zip(pa, pb): the sign at the first differing pair, else 0.
ZipCmp(pa, pb) ==
    IF pa = <<>> \/ pb = <<>> THEN 0
    ELSE IF Head(pa) < Head(pb) THEN -1
    ELSE IF Head(pa) > Head(pb) THEN 1
    ELSE ZipCmp(Tail(pa), Tail(pb))

\* A mutant of compare_semver: components compared as strings, not integers.
compare_semver_lexical(a, b) ==
    IF a = "" /\ b = "" THEN 0
    ELSE IF a = "" THEN -1
    ELSE IF b = "" THEN 1
    ELSE StrCmp(a, b)

compare_semver(a, b) ==
    IF a = "" /\ b = "" THEN 0
    ELSE IF a = "" THEN -1
    ELSE IF b = "" THEN 1
    ELSE LET sa == Split(a, ".")
             sb == Split(b, ".")
         IN  IF /\ \A i \in 1..Len(sa) : IsPyInt(sa[i])
                /\ \A i \in 1..Len(sb) : IsPyInt(sb[i])
             THEN LET pa == [i \in 1..Len(sa) |-> PyInt(sa[i])]
                      pb == [i \in 1..Len(sb) |-> PyInt(sb[i])]
                      z  == ZipCmp(pa, pb)
                  IN  IF z # 0 THEN z
                      ELSE IF Len(pa) < Len(pb) THEN -1
                      ELSE IF Len(pa) > Len(pb) THEN 1
                      ELSE 0
             ELSE StrCmp(a, b)

(***************************************************************************)
(* State                                                                   *)
(***************************************************************************)

VARIABLES
    platform,       \* platform.system()
    cache,          \* LATEST_VERSION_CACHE["value"]
    forced,         \* os.environ["FORCE_LATEST_VERSION"], stripped
    rpc,            \* the refresher thread's position in its loop
    rlatest,        \* the refresher's local `latest`
    lastNonEmpty,   \* history: the refresher's most recent non-empty oracle result
    spc,            \* a get_claude_code_status call's position
    cliEnv,         \* what the machine answers to the CLI probes during the call
    extEnv,         \* what it answers to the extension listing during the call
    cliRes,         \* its get_cli_claude_code_version() result
    extRes,         \* its get_vscode_claude_code_version() result
    extCalls,       \* history: extension detector calls of this status call
    latest,         \* its local `latest` / `fallback_latest`
    cacheAtRead,    \* history: the cache value when this status call read it
    readValue,      \* history: what get_cached_latest_version() returned to it
    oracleGot,      \* history: what its oracle query returned
    oracleCalls,    \* history: oracle queries of this status call
    status,         \* the record the last status call returned
    accounts,       \* the accounts table: id -> (baseurl, apikey)
    envFile,        \* the environment file: whether it exists, and its content
    envWritable,    \* whether the environment file can be opened for writing
    persistOk,      \* whether launchctl / setx is there and succeeds
    persist,        \* the OS persistent user environment (launchctl, setx)
    environ,        \* os.environ of the server process
    epc,            \* per request thread: its position in set_default
    ereq,           \* per request thread: the (baseurl, apikey) it applies
    m,              \* the machine: directories, files, PATH stores, os.environ["PATH"]
    lastOp,         \* history: the installer / PATH operation that ran last
    ret,            \* what that operation returned
    call,           \* the function a caller applied last, with its arguments
    answer,         \* what that call gave back
    host,           \* the tools and the accounts database of the machine
    fix             \* what the last auto_fix_environment did and returned

cacheVars == <<cache, forced, rpc, rlatest, lastNonEmpty>>

statusVars ==
    <<spc, cliEnv, extEnv, cliRes, extRes, extCalls, latest, cacheAtRead, readValue,
      oracleGot, oracleCalls, status>>

envVars == <<accounts, envFile, envWritable, persistOk, persist, environ, epc, ereq>>

fsVars == <<m, lastOp, ret>>

pureVars == <<call, answer>>

fixVars == <<host, fix>>

vars == <<platform, cacheVars, statusVars, envVars, fsVars, pureVars, fixVars>>

(***************************************************************************)
(* The environment writer                                                  *)
(***************************************************************************)

ENV_BASE_URL == "ANTHROPIC_BASE_URL"

ENV_AUTH_TOKEN == "ANTHROPIC_AUTH_TOKEN"

EnvNames == {ENV_BASE_URL, ENV_AUTH_TOKEN}

Threads == {1, 2}

\* The rows of the accounts table the requests choose from.
StoredAccounts ==
    [id \in {1, 2} |->
        IF id = 1 THEN [baseurl |-> "https://api.example.com", apikey |-> "secret-key-1234"]
        ELSE [baseurl |-> "https://b.io", apikey |-> "k-2"]]

NoEnv == [n \in EnvNames |-> ""]

\* The environment variables and request threads of a process that applies
\* no settings.
EnvQuiet ==
    /\ accounts = StoredAccounts
    /\ envFile = [exists |-> FALSE, content |-> ""]
    /\ envWritable = TRUE
    /\ persistOk = TRUE
    /\ persist = NoEnv
    /\ environ = NoEnv
    /\ epc = [t \in Threads |-> "idle"]
    /\ ereq = [t \in Threads |-> [baseurl |-> "", apikey |-> ""]]

statusSide == <<cacheVars, statusVars>>

NoOp == [name |-> "", arg |-> "", repeated |-> FALSE]

NoRet ==
    [raised |-> FALSE, installed |-> FALSE, path |-> "", dir |-> "",
     success |-> FALSE, message |-> ""]

NoCall == [fn |-> "", args |-> <<>>]

\* No function has been applied.
PureQuiet ==
    /\ call = NoCall
    /\ answer = <<>>

\* The four components auto_fix_environment reports on.
FixComponents == {"claude_cli", "ccui", "path_config", "env_files"}

\* fix_results as auto_fix_environment initialises it; attempted are the
\* components whose step has run, done says the function returned, raised that
\* an exception left it.
NoFix ==
    [claude_cli |-> [fixed |-> FALSE, message |-> ""],
     ccui |-> [fixed |-> FALSE, message |-> ""],
     path_config |-> [fixed |-> FALSE, message |-> ""],
     env_files |-> [fixed |-> FALSE, message |-> ""],
     overall_success |-> FALSE,
     attempted |-> {}, done |-> FALSE, raised |-> FALSE]

\* No auto fix has run; the tools are there and the database answers.
FixQuiet ==
    /\ host = [claude |-> TRUE, npm |-> TRUE, installOk |-> TRUE, dbOk |-> TRUE]
    /\ fix = NoFix

\* The installer variables of a process that installs nothing and touches no
\* PATH store.
FsQuiet ==
    /\ m = [dirs |-> {}, files |-> <<>>, denied |-> {}, procPath |-> "",
            launchd |-> "", reg |-> [exists |-> FALSE, name |-> "", value |-> ""],
            storeOk |-> TRUE]
    /\ lastOp = NoOp
    /\ ret = NoRet

\* write_env_file's content for the platform: regenerated in full from the pair.
env_content(baseurl, apikey) ==
    IF platform = "Windows"
    THEN "@echo off\n"
         \o "set " \o ENV_BASE_URL \o "=" \o baseurl \o "\n"
         \o "set " \o ENV_AUTH_TOKEN \o "=" \o apikey \o "\n"
    ELSE "export " \o ENV_BASE_URL \o "=" \o baseurl \o "\n"
         \o "export " \o ENV_AUTH_TOKEN \o "=" \o apikey \o "\n"

\* A write of `data` at offset 0 of a file that holds `old`: bytes of old past
\* the end of data stay.
WriteAtStart(old, data) ==
    IF Len(data) >= Len(old) THEN data
    ELSE data \o SubSeq(old, Len(data) + 1, Len(old))

\* set_default(account_id): Account.query.get_or_404, then apply_env_settings
\* begins.  An id that is not in the table ends the request with a 404.
SetDefault(t) ==
    /\ epc[t] \in {"idle", "done", "failed", "notfound"}
    /\ \E id \in {1, 2, 3} :
         IF id \in DOMAIN accounts
         THEN /\ ereq' = [ereq EXCEPT ![t] = accounts[id]]
              /\ epc' = [epc EXCEPT ![t] = "open"]
         ELSE /\ epc' = [epc EXCEPT ![t] = "notfound"]
              /\ UNCHANGED ereq
    /\ UNCHANGED <<platform, statusSide, fsVars, pureVars, fixVars, accounts, envFile, envWritable, persistOk,
                   persist, environ>>

\* write_env_file, first half: Path.write_text opens the file with mode "w",
\* which creates or truncates it.  A failure to open raises out of
\* apply_env_settings and out of the route.
EnvOpen(t) ==
    /\ epc[t] = "open"
    /\ IF envWritable
       THEN /\ envFile' = [exists |-> TRUE, content |-> ""]
            /\ epc' = [epc EXCEPT ![t] = "write"]
       ELSE /\ epc' = [epc EXCEPT ![t] = "failed"]
            /\ UNCHANGED envFile
    /\ UNCHANGED <<platform, statusSide, fsVars, pureVars, fixVars, accounts, envWritable, persistOk, persist,
                   environ, ereq>>

\* A mutant of EnvWrite: the new content is appended to what the file holds.
EnvWriteAppend(t) ==
    /\ epc[t] = "write"
    /\ envFile' = [envFile EXCEPT
                     !.content = @ \o env_content(ereq[t].baseurl, ereq[t].apikey)]
    /\ epc' = [epc EXCEPT ![t] = "persist1"]
    /\ UNCHANGED <<platform, statusSide, fsVars, pureVars, fixVars, accounts, envWritable, persistOk, persist,
                   environ, ereq>>

\* write_env_file, second half: the content is written through this thread's
\* own handle, at its offset 0, and the handle is closed.
EnvWrite(t) ==
    /\ epc[t] = "write"
    /\ envFile' = [envFile EXCEPT
                     !.content = WriteAtStart(@, env_content(ereq[t].baseurl, ereq[t].apikey))]
    /\ epc' = [epc EXCEPT ![t] = "persist1"]
    /\ UNCHANGED <<platform, statusSide, fsVars, pureVars, fixVars, accounts, envWritable, persistOk, persist,
                   environ, ereq>>

\* launchctl_setenv(var, value): launchctl setenv through run_command_safely,
\* or setx; a missing or failing command is a return code, not an exception.
launchctl_setenv(var, value) ==
    IF persistOk THEN [persist EXCEPT ![var] = value] ELSE persist

EnvPersistBaseUrl(t) ==
    /\ epc[t] = "persist1"
    /\ persist' = launchctl_setenv(ENV_BASE_URL, ereq[t].baseurl)
    /\ epc' = [epc EXCEPT ![t] = "persist2"]
    /\ UNCHANGED <<platform, statusSide, fsVars, pureVars, fixVars, accounts, envFile, envWritable, persistOk,
                   environ, ereq>>

EnvPersistToken(t) ==
    /\ epc[t] = "persist2"
    /\ persist' = launchctl_setenv(ENV_AUTH_TOKEN, ereq[t].apikey)
    /\ epc' = [epc EXCEPT ![t] = "environ1"]
    /\ UNCHANGED <<platform, statusSide, fsVars, pureVars, fixVars, accounts, envFile, envWritable, persistOk,
                   environ, ereq>>

\* os.environ[ENV_BASE_URL] = baseurl
EnvironBaseUrl(t) ==
    /\ epc[t] = "environ1"
    /\ environ' = [environ EXCEPT ![ENV_BASE_URL] = ereq[t].baseurl]
    /\ epc' = [epc EXCEPT ![t] = "environ2"]
    /\ UNCHANGED <<platform, statusSide, fsVars, pureVars, fixVars, accounts, envFile, envWritable, persistOk,
                   persist, ereq>>

\* os.environ[ENV_AUTH_TOKEN] = apikey; apply_env_settings returns.
EnvironToken(t) ==
    /\ epc[t] = "environ2"
    /\ environ' = [environ EXCEPT ![ENV_AUTH_TOKEN] = ereq[t].apikey]
    /\ epc' = [epc EXCEPT ![t] = "done"]
    /\ UNCHANGED <<platform, statusSide, fsVars, pureVars, fixVars, accounts, envFile, envWritable, persistOk,
                   persist, ereq>>

\* The key mask keeps this many trailing characters.
keep == 4

\* A mutant of mask_key: the leading characters stay visible instead of the
\* trailing ones.
mask_key_leading(key) ==
    IF key = "" THEN ""
    ELSE IF Len(key) <= keep THEN Repeat("*", Len(key))
    ELSE SubSeq(key, 1, keep) \o Repeat("*", Len(key) - keep)

\* mask_key(key, keep=4)
mask_key(key) ==
    IF key = "" THEN ""
    ELSE IF Len(key) <= keep THEN Repeat("*", Len(key))
    ELSE Repeat("*", Len(key) - keep) \o SubSeq(key, Len(key) - keep + 1, Len(key))

\* launchctl_getenv(var): the process environment on Windows; elsewhere what
\* launchctl getenv prints, "" when the command is missing or fails.
launchctl_getenv(var) ==
    IF platform = "Windows" THEN environ[var]
    ELSE IF persistOk THEN Strip(persist[var])
    ELSE ""

\* index(): launchctl_getenv(ENV_AUTH_TOKEN) or os.environ.get(ENV_AUTH_TOKEN, "")
env_apikey ==
    IF launchctl_getenv(ENV_AUTH_TOKEN) # "" THEN launchctl_getenv(ENV_AUTH_TOKEN)
    ELSE environ[ENV_AUTH_TOKEN]

\* index(): the key handed to the template.
env_apikey_masked == mask_key(env_apikey)

StatusQuiet ==
    /\ cache = ""
    /\ forced = ""
    /\ rpc = "query"
    /\ rlatest = ""
    /\ lastNonEmpty = ""
    /\ spc = "idle"
    /\ cliEnv = [path |-> "", answers |-> <<>>, hangs |-> {}]
    /\ extEnv = [code |-> 127, out |-> ""]
    /\ cliRes = <<FALSE, "">>
    /\ extRes = <<FALSE, "", "">>
    /\ extCalls = 0
    /\ latest = ""
    /\ cacheAtRead = ""
    /\ readValue = ""
    /\ oracleGot = ""
    /\ oracleCalls = 0
    /\ status = [installed |-> FALSE, source |-> "", current_version |-> "",
                 latest_version |-> "", needs_upgrade |-> FALSE, vscode_ext_id |-> ""]

\* The environment specification: request threads that run set_default, on a
\* machine whose environment file may be unwritable and whose persistent
\* store command may be missing.
InitEnv ==
    /\ platform \in {"Windows", "Darwin", "Linux"}
    /\ accounts = StoredAccounts
    /\ envFile \in {[exists |-> FALSE, content |-> ""],
                    [exists |-> TRUE, content |-> env_content("https://old.example.org/v1", "old-key")]}
    /\ envWritable \in BOOLEAN
    /\ persistOk \in (IF platform = "Linux" THEN {FALSE} ELSE BOOLEAN)
    /\ persist = NoEnv
    /\ environ = NoEnv
    /\ epc = [t \in Threads |-> "idle"]
    /\ ereq = [t \in Threads |-> [baseurl |-> "", apikey |-> ""]]
    /\ StatusQuiet
    /\ FsQuiet
    /\ PureQuiet
    /\ FixQuiet

NextEnv ==
    \E t \in Threads :
        \/ SetDefault(t)
        \/ EnvOpen(t)
        \/ EnvWrite(t)
        \/ EnvPersistBaseUrl(t)
        \/ EnvPersistToken(t)
        \/ EnvironBaseUrl(t)
        \/ EnvironToken(t)

SpecEnv == InitEnv /\ [][NextEnv]_vars


\* The account ids the table hands out do not go past this.
MaxAccountId == 2

\* What the add and edit forms are posted with: a new pair, and a pair whose
\* apikey is blank once stripped.
Forms ==
    {[baseurl |-> "https://c.io", apikey |-> "k-3"],
     [baseurl |-> "https://c.io", apikey |-> ""]}

\* The id a new row gets: one past the largest id in the table.
NextAccountId ==
    IF DOMAIN accounts = {} THEN 1
    ELSE (CHOOSE i \in DOMAIN accounts : \A j \in DOMAIN accounts : j <= i) + 1

\* What the account routes leave alone: everything but the table.
AccountsFrame ==
    UNCHANGED <<platform, statusSide, fsVars, pureVars, fixVars, envFile, envWritable, persistOk,
                persist, environ, epc, ereq>>

\* add_account(): a blank baseurl or apikey is refused; otherwise the row is
\* added and committed.
AddAccount ==
    /\ NextAccountId <= MaxAccountId
    /\ \E form \in Forms :
         accounts' = IF form.baseurl = "" \/ form.apikey = "" THEN accounts
                     ELSE (NextAccountId :> form) @@ accounts
    /\ AccountsFrame

\* edit_account(account_id), POST: 404 for an id that is not in the table; a
\* blank baseurl or apikey is refused; otherwise the row is updated and
\* committed.
EditAccount ==
    /\ \E account_id \in 1..MaxAccountId, form \in Forms :
         accounts' = IF account_id \notin DOMAIN accounts THEN accounts
                     ELSE IF form.baseurl = "" \/ form.apikey = "" THEN accounts
                     ELSE [accounts EXCEPT ![account_id] = form]
    /\ AccountsFrame

\* A mutant of delete_account: deleting a row also empties the process
\* environment's pair.
DeleteAccountClearing ==
    /\ \E account_id \in 1..MaxAccountId :
         accounts' = IF account_id \notin DOMAIN accounts THEN accounts
                     ELSE [i \in DOMAIN accounts \ {account_id} |-> accounts[i]]
    /\ environ' = NoEnv
    /\ UNCHANGED <<platform, statusSide, fsVars, pureVars, fixVars, envFile, envWritable, persistOk,
                   persist, epc, ereq>>

\* delete_account(account_id): 404 for an id that is not in the table;
\* otherwise the row is deleted and committed.
DeleteAccount ==
    /\ \E account_id \in 1..MaxAccountId :
         accounts' = IF account_id \notin DOMAIN accounts THEN accounts
                     ELSE [i \in DOMAIN accounts \ {account_id} |-> accounts[i]]
    /\ AccountsFrame

\* The account routes beside the activation requests.
NextAccounts ==
    \/ NextEnv
    \/ AddAccount
    \/ EditAccount
    \/ DeleteAccount

SpecAccounts == InitEnv /\ [][NextAccounts]_vars

\* No request thread other than t has begun a set_default.
NoOneElseRan(t) == \A u \in Threads \ {t} : epc[u] = "idle"

\* C7: apply_env_settings attempts all three steps whatever fails: when a call
\* has ended, with no other call beside it, the process environment holds the
\* call's base URL and token, whether or not the file write or the persistent
\* store succeeded.
C7_AllStepsAttempted ==
    \A t \in Threads :
        epc[t] \in {"done", "failed"} /\ NoOneElseRan(t) =>
            /\ environ[ENV_BASE_URL] = ereq[t].baseurl
            /\ environ[ENV_AUTH_TOKEN] = ereq[t].apikey

\* C8: whenever no write_env_file is in progress, a file that has been written
\* holds exactly the content generated from the pair of one call, with nothing
\* left over from other content.
C8_FileIsOneCallsContent ==
    (/\ \A t \in Threads : epc[t] \notin {"open", "write"}
     /\ \E t \in Threads : epc[t] \notin {"idle", "notfound", "failed"}) =>
        \E id \in DOMAIN accounts :
            envFile.content = env_content(accounts[id].baseurl, accounts[id].apikey)

\* The environment: the file, the persistent store and the process's pair.
Environment == <<envFile, persist, environ>>

\* C27: the environment changes only through activation: a step that adds,
\* edits or deletes a row of the accounts table, and a set_default for an id
\* that is not in the table, leave the environment file, the persistent store
\* and the process environment unchanged; so when an activation has completed,
\* with no other beside it, the environment holds the values it wrote whatever
\* has happened to the table's rows since.
C27_OnlyActivationChangesEnv ==
    /\ [][(\/ accounts' # accounts
           \/ \E t \in Threads : epc'[t] = "notfound" /\ epc'[t] # epc[t])
          => UNCHANGED Environment]_vars
    /\ [](\A t \in Threads :
            epc[t] = "done" /\ NoOneElseRan(t) =>
                /\ environ = [n \in EnvNames |->
                                 IF n = ENV_BASE_URL THEN ereq[t].baseurl ELSE ereq[t].apikey]
                /\ envFile.content = env_content(ereq[t].baseurl, ereq[t].apikey)
                /\ persistOk => persist = environ)

\* The first row was activated and then deleted: the table no longer has it,
\* and the file, the store and the process environment still hold its pair.
C27_Witness ==
    /\ epc[1] = "done" /\ NoOneElseRan(1)
    /\ ereq[1] = StoredAccounts[1]
    /\ 1 \notin DOMAIN accounts
    /\ persistOk
    /\ environ[ENV_BASE_URL] = StoredAccounts[1].baseurl
    /\ persist[ENV_AUTH_TOKEN] = StoredAccounts[1].apikey
    /\ envFile.content = env_content(StoredAccounts[1].baseurl, StoredAccounts[1].apikey)

\* shown is key with every character but the trailing four replaced by '*',
\* and with every character replaced when key has four or fewer.
MaskShape(key, shown) ==
    /\ Len(shown) = Len(key)
    /\ \A i \in 1..Len(key) :
           CharAt(shown, i) = IF Len(key) > 4 /\ i > Len(key) - 4 THEN CharAt(key, i) ELSE "*"

\* C17: after apply_env_settings(baseurl, apikey) the key rendered for display
\* is the masked form of apikey (same length, only the trailing 4 characters
\* visible, all '*' for a key of 4 or fewer characters, empty for an empty
\* key), while the environment file and the process environment hold the
\* unmasked baseurl and apikey.
C17_DisplayMasked ==
    /\ MaskShape(env_apikey, env_apikey_masked)
    /\ \A t \in Threads :
           epc[t] = "done" /\ NoOneElseRan(t) =>
               /\ env_apikey = ereq[t].apikey
               /\ environ[ENV_BASE_URL] = ereq[t].baseurl
               /\ environ[ENV_AUTH_TOKEN] = ereq[t].apikey
               /\ Contains(envFile.content, ENV_BASE_URL \o "=" \o ereq[t].baseurl \o "\n")
               /\ Contains(envFile.content, ENV_AUTH_TOKEN \o "=" \o ereq[t].apikey \o "\n")

C17_Witness ==
    \E t \in Threads :
        /\ epc[t] = "done" /\ NoOneElseRan(t)
        /\ ereq[t].apikey = "secret-key-1234"
        /\ env_apikey_masked = "***********1234"

(***************************************************************************)
(* The filesystem and the ccui wrapper installer                           *)
(*                                                                         *)
(* An operation on the machine is an operator from the machine record to   *)
(* a result record: the machine it leaves, whether it raised, and what it  *)
(* returned.  m.dirs are the directories that exist, m.files the files     *)
(* that exist with their content and executable bit, m.denied the paths    *)
(* the user may not modify: a directory in which no entry can be created,  *)
(* written or removed (or which cannot be created), a file that cannot be  *)
(* opened for writing.                                                     *)
(***************************************************************************)

Sep == IF platform = "Windows" THEN "\\" ELSE "/"

\* Path.home()
Home == IF platform = "Windows" THEN "C:\\Users\\u" ELSE "/home/u"

\* dir / name
PathJoin(dir, name) == dir \o Sep \o name

LocalBin == PathJoin(PathJoin(Home, ".local"), "bin")

HomeBin == PathJoin(Home, "bin")

AppDataLocalBin == PathJoin(PathJoin(PathJoin(Home, "AppData"), "Local"), "bin")

RoamingNpm == PathJoin(PathJoin(PathJoin(Home, "AppData"), "Roaming"), "npm")

Zprofile == PathJoin(Home, ".zprofile")

Zshrc == PathJoin(Home, ".zshrc")

ENV_FILE_PATH == PathJoin(Home, ".claude-code-env")

\* The wrapper's file name on the platform.
WrapperName == IF platform = "Windows" THEN "ccui.bat" ELSE "ccui"

\* generate_ccui_script(): the text depends on the platform and on
\* ENV_FILE_PATH only.
generate_ccui_script ==
    IF platform = "Windows"
    THEN LET env_file_bat == ENV_FILE_PATH \o ".bat"
         IN  "@echo off\n"
             \o "if exist \"" \o env_file_bat \o "\" (\n"
             \o "    call \"" \o env_file_bat \o "\"\n"
             \o ")\n"
             \o "claude %*\n"
    ELSE "#!/bin/zsh\n"
         \o "set -euo pipefail\n"
         \o "ENV_FILE=\"${CLAUDE_ENV_FILE:-" \o ENV_FILE_PATH \o "}\"\n"
         \o "if [ -f \"$ENV_FILE\" ]; then\n"
         \o "  . \"$ENV_FILE\"\n"
         \o "fi\n"
         \o "exec claude \"$@\"\n"

\* path.exists() for a file
FileExists(mm, p) == p \in DOMAIN mm.files

\* path.read_text() if path.exists() else ""
ReadOrEmpty(mm, p) == IF FileExists(mm, p) THEN mm.files[p].content ELSE ""

\* d.mkdir(parents=True, exist_ok=True)
mkdir(mm, d) ==
    IF d \in mm.dirs THEN [m |-> mm, raised |-> FALSE]
    ELSE IF d \in mm.denied THEN [m |-> mm, raised |-> TRUE]
    ELSE [m |-> [mm EXCEPT !.dirs = @ \cup {d}], raised |-> FALSE]

\* The file at p with content `content`: a file that exists keeps its mode, a
\* new one is not executable.
PutFile(mm, p, content) ==
    [mm EXCEPT !.files =
        (p :> [content |-> content,
               exec |-> IF FileExists(mm, p) THEN mm.files[p].exec ELSE FALSE]) @@ @]

\* (d / name).write_text(content): create or truncate, then write.
write_text(mm, d, name, content) ==
    IF d \in mm.denied THEN [m |-> mm, raised |-> TRUE]
    ELSE [m |-> PutFile(mm, PathJoin(d, name), content), raised |-> FALSE]

\* p.chmod(0o755)
chmod(mm, p) == [mm EXCEPT !.files[p].exec = TRUE]

\* A mutant of unlink: the file's directory goes with the file.
unlink_with_dir(mm, d, p) ==
    IF d \in mm.denied THEN [m |-> mm, raised |-> TRUE]
    ELSE [m |-> [mm EXCEPT !.files = [q \in (DOMAIN @) \ {p} |-> @[q]],
                          !.dirs = @ \ {d}],
          raised |-> FALSE]

\* p.unlink(), for a file in directory d
unlink(mm, d, p) ==
    IF d \in mm.denied THEN [m |-> mm, raised |-> TRUE]
    ELSE [m |-> [mm EXCEPT !.files = [q \in (DOMAIN @) \ {p} |-> @[q]]],
          raised |-> FALSE]

\* The directory install_ccui writes to: the argument, or the platform default.
\* target_dir = "" is None.
InstallDir(mm, target_dir) ==
    IF target_dir # "" THEN target_dir
    ELSE IF platform = "Windows" THEN RoamingNpm
    ELSE IF LocalBin \in mm.dirs THEN LocalBin
    ELSE HomeBin

\* A mutant of install_ccui: the script is added at the end of what the file
\* holds.
install_ccui_append(mm, target_dir) ==
    LET dir == InstallDir(mm, target_dir)
        made == mkdir(mm, dir)
        target_path == PathJoin(dir, WrapperName)
        written == write_text(made.m, dir, WrapperName,
                              ReadOrEmpty(made.m, target_path) \o generate_ccui_script)
    IN  IF made.raised \/ written.raised
        THEN [m |-> made.m, raised |-> TRUE, path |-> "", dir |-> ""]
        ELSE [m |-> IF platform # "Windows" THEN chmod(written.m, target_path)
                    ELSE written.m,
              raised |-> FALSE, path |-> target_path, dir |-> dir]

\* install_ccui(target_dir): make the directory, write the generated script
\* over whatever is there, make it executable off Windows, return the path.
\* A refused mkdir or write raises.
install_ccui(mm, target_dir) ==
    LET dir == InstallDir(mm, target_dir)
        made == mkdir(mm, dir)
        target_path == PathJoin(dir, WrapperName)
        written == write_text(made.m, dir, WrapperName, generate_ccui_script)
    IN  IF made.raised \/ written.raised
        THEN [m |-> made.m, raised |-> TRUE, path |-> "", dir |-> ""]
        ELSE [m |-> IF platform # "Windows" THEN chmod(written.m, target_path)
                    ELSE written.m,
              raised |-> FALSE, path |-> target_path, dir |-> dir]

(***************************************************************************)
(* PATH reconciliation                                                     *)
(*                                                                         *)
(* m.procPath is os.environ["PATH"]; m.launchd is the PATH that launchctl  *)
(* holds (POSIX); m.reg is the PATH value of HKCU\Environment (Windows);   *)
(* m.storeOk says whether launchctl / setx is there and succeeds.          *)
(***************************************************************************)

\* The two lines append_if_missing writes.
ExportBlock(mm) ==
    "\n# Added by ccui setup: ensure local bin is on PATH\n"
    \o "export PATH=\"" \o LocalBin \o ":" \o mm.procPath \o "\"\n"

\* A mutant of append_if_missing: the file is opened for writing, not for
\* appending, so the lines replace what it held.
append_truncating(mm, target_file) ==
    IF Contains(ReadOrEmpty(mm, target_file), LocalBin) THEN [m |-> mm, appended |-> FALSE]
    ELSE IF target_file \in mm.denied THEN [m |-> mm, appended |-> FALSE]
    ELSE [m |-> PutFile(mm, target_file, ExportBlock(mm)), appended |-> TRUE]

\* A mutant of append_if_missing: the lines are appended whatever the file
\* holds.
append_always(mm, target_file) ==
    IF target_file \in mm.denied THEN [m |-> mm, appended |-> FALSE]
    ELSE [m |-> PutFile(mm, target_file, ReadOrEmpty(mm, target_file) \o ExportBlock(mm)),
          appended |-> TRUE]

\* append_if_missing(target_file): append the export lines unless the
\* directory string occurs in the file; a failure is swallowed.
append_if_missing(mm, target_file) ==
    IF Contains(ReadOrEmpty(mm, target_file), LocalBin) THEN [m |-> mm, appended |-> FALSE]
    ELSE IF target_file \in mm.denied THEN [m |-> mm, appended |-> FALSE]
    ELSE [m |-> PutFile(mm, target_file, ReadOrEmpty(mm, target_file) \o ExportBlock(mm)),
          appended |-> TRUE]

\* run_command_safely(["launchctl", "getenv", "PATH"]): (code, out), out stripped.
launchctl_getenv_PATH(mm) ==
    IF mm.storeOk THEN [code |-> 0, out |-> Strip(mm.launchd)]
    ELSE [code |-> 127, out |-> ""]

\* run_command_safely(["launchctl", "setenv", "PATH", new_path])
launchctl_setenv_PATH(mm, new_path) ==
    IF mm.storeOk THEN [mm EXCEPT !.launchd = new_path] ELSE mm

\* x in parts
InList(x, parts) == \E i \in DOMAIN parts : parts[i] = x

\* ensure_unix_bin_on_path(): ~/.local/bin is made (a refusal raises), the
\* export lines go to .zprofile and .zshrc, launchctl's PATH gets the
\* directory in front unless it is one of its elements.  Always (True, ...).
ensure_unix_bin_on_path(mm) ==
    LET made == mkdir(mm, LocalBin)
        a1 == append_if_missing(made.m, Zprofile)
        a2 == append_if_missing(a1.m, Zshrc)
        appended_files ==
            (IF a1.appended THEN <<Zprofile>> ELSE <<>>)
            \o (IF a2.appended THEN <<Zshrc>> ELSE <<>>)
        got == launchctl_getenv_PATH(a2.m)
        launchctl_path == IF got.code = 0 /\ got.out # "" THEN got.out ELSE mm.procPath
        final ==
            IF launchctl_path # "" /\ ~InList(LocalBin, Split(launchctl_path, ":"))
            THEN launchctl_setenv_PATH(a2.m, LocalBin \o ":" \o launchctl_path)
            ELSE a2.m
    IN  IF made.raised
        THEN [m |-> made.m, raised |-> TRUE, success |-> FALSE, message |-> ""]
        ELSE [m |-> final, raised |-> FALSE, success |-> TRUE,
              message |-> Join(appended_files, ", ")]

\* reg query HKCU\Environment /v PATH: the value's line is four spaces, the
\* name as stored, four spaces, the type, four spaces, the data.
reg_query_PATH(mm) ==
    IF mm.reg.exists
    THEN [returncode |-> 0,
          stdout |-> "\nHKEY_CURRENT_USER\\Environment\n    " \o mm.reg.name
                     \o "    REG_SZ    " \o mm.reg.value \o "\n\n"]
    ELSE [returncode |-> 1, stdout |-> ""]

RECURSIVE FirstPathLine(_)
\* The first line with 'PATH' in line and 'REG_' in line, as a list of at most
\* one line.
FirstPathLine(lines) ==
    IF lines = <<>> THEN <<>>
    ELSE IF Contains(Head(lines), "PATH") /\ Contains(Head(lines), "REG_") THEN <<Head(lines)>>
    ELSE FirstPathLine(Tail(lines))

\* current_user_path as both Windows reconcilers read it: parts[3] of the
\* first matching line split on four spaces; "" when the query fails or no
\* line matches.  A matching line of exactly three parts raises IndexError.
read_user_path(mm) ==
    LET result == reg_query_PATH(mm)
        hit == IF result.returncode = 0 THEN FirstPathLine(Split(result.stdout, "\n"))
               ELSE <<>>
        parts == IF hit = <<>> THEN <<>> ELSE Split(hit[1], "    ")
    IN  IF Len(parts) >= 4 THEN [raised |-> FALSE, value |-> Strip(parts[4])]
        ELSE IF Len(parts) = 3 THEN [raised |-> TRUE, value |-> ""]
        ELSE [raised |-> FALSE, value |-> ""]

\* setx PATH new_path: the value's name keeps the case it was stored with.
setx_PATH(mm, new_path) ==
    IF mm.storeOk
    THEN [m |-> [mm EXCEPT !.reg = [exists |-> TRUE,
                                    name |-> IF @.exists THEN @.name ELSE "PATH",
                                    value |-> new_path]],
          returncode |-> 0]
    ELSE [m |-> mm, returncode |-> 1]

possible_dirs == <<HomeBin, AppDataLocalBin, LocalBin>>

\* The first of possible_dirs that holds a ccui.bat, else the first that
\* occurs in some element of the process PATH, else ~/bin; "" stands for
\* "none found" in the two searches.
WithBat(mm) ==
    LET hits == {i \in DOMAIN possible_dirs : FileExists(mm, PathJoin(possible_dirs[i], "ccui.bat"))}
    IN  IF hits = {} THEN "" ELSE possible_dirs[CHOOSE i \in hits : \A j \in hits : i <= j]

InProcessPath(mm) ==
    LET path_parts == Split(Lower(mm.procPath), ";")
        hits == {i \in DOMAIN possible_dirs :
                    \E k \in DOMAIN path_parts : Contains(path_parts[k], Lower(possible_dirs[i]))}
    IN  IF hits = {} THEN "" ELSE possible_dirs[CHOOSE i \in hits : \A j \in hits : i <= j]

\* os.environ['PATH'] = f"{os.environ.get('PATH','')};{ccui_dir_str}"
AppendProcPath(mm, d) == [mm EXCEPT !.procPath = @ \o ";" \o d]

\* ensure_windows_bin_on_path, from the try on: read the user PATH; if the
\* directory occurs in it (case-insensitively, as a substring) only the
\* process PATH is completed; else setx the user PATH with the directory
\* appended and, when setx succeeds, append it to the process PATH.  The
\* message of a Windows reconciler is recorded as the branch that returned.
persist_windows_bin(mm, ccui_dir) ==
    LET read == read_user_path(mm)
        current_user_path == read.value
        new_path == IF current_user_path # "" THEN current_user_path \o ";" \o ccui_dir
                    ELSE ccui_dir
        set == setx_PATH(mm, new_path)
    IN  IF read.raised
        THEN [m |-> mm, raised |-> FALSE, success |-> FALSE, message |-> "exception"]
        ELSE IF current_user_path # "" /\ Contains(Lower(current_user_path), Lower(ccui_dir))
        THEN [m |-> IF ~Contains(Lower(mm.procPath), Lower(ccui_dir))
                    THEN AppendProcPath(mm, ccui_dir) ELSE mm,
              raised |-> FALSE, success |-> TRUE, message |-> "already"]
        ELSE IF set.returncode = 0
        THEN [m |-> AppendProcPath(set.m, ccui_dir), raised |-> FALSE, success |-> TRUE,
              message |-> "added"]
        ELSE [m |-> set.m, raised |-> FALSE, success |-> FALSE, message |-> "setx failed"]

\* ensure_windows_bin_on_path(): choose the directory, make it when no
\* ccui.bat was found (a refusal raises, the mkdir is outside the try), then
\* put it on the user PATH.
ensure_windows_bin_on_path(mm) ==
    LET found == WithBat(mm)
        ccui_dir == IF found # "" THEN found
                    ELSE IF InProcessPath(mm) # "" THEN InProcessPath(mm)
                    ELSE HomeBin
        made == IF found # "" THEN [m |-> mm, raised |-> FALSE] ELSE mkdir(mm, ccui_dir)
    IN  IF made.raised
        THEN [m |-> made.m, raised |-> TRUE, success |-> FALSE, message |-> ""]
        ELSE persist_windows_bin(made.m, ccui_dir)

\* ensure_windows_npm_on_path(): off Windows nothing; on Windows the npm
\* global directory is made and put on the user PATH, every failure caught.
\* The process PATH is left alone.
ensure_windows_npm_on_path(mm) ==
    LET made == mkdir(mm, RoamingNpm)
        read == read_user_path(made.m)
        current_user_path == read.value
        new_path == IF current_user_path # "" THEN current_user_path \o ";" \o RoamingNpm
                    ELSE RoamingNpm
        set == setx_PATH(made.m, new_path)
    IN  IF platform # "Windows"
        THEN [m |-> mm, raised |-> FALSE, success |-> TRUE, message |-> "not windows"]
        ELSE IF made.raised \/ read.raised
        THEN [m |-> made.m, raised |-> FALSE, success |-> FALSE, message |-> "exception"]
        ELSE IF current_user_path # "" /\ Contains(Lower(current_user_path), Lower(RoamingNpm))
        THEN [m |-> made.m, raised |-> FALSE, success |-> TRUE, message |-> "already"]
        ELSE IF set.returncode = 0
        THEN [m |-> set.m, raised |-> FALSE, success |-> TRUE, message |-> "added"]
        ELSE [m |-> set.m, raised |-> FALSE, success |-> FALSE, message |-> "setx failed"]

\* ensure_local_bin_on_path(): the platform's reconciler.
ensure_local_bin_on_path(mm) ==
    IF platform = "Windows" THEN ensure_windows_bin_on_path(mm)
    ELSE ensure_unix_bin_on_path(mm)

(***************************************************************************)
(* The install and force-reinstall routes                                  *)
(***************************************************************************)

\* install_ccui_route: install_ccui() with the default directory (a raise
\* ends the request), then ensure_windows_npm_on_path on Windows and
\* ensure_local_bin_on_path elsewhere.  The retry over the candidate
\* directories runs only if the path just written does not exist.
install_ccui_route(mm) ==
    LET inst == install_ccui(mm, "")
        ens == IF platform = "Windows" THEN ensure_windows_npm_on_path(inst.m)
               ELSE ensure_local_bin_on_path(inst.m)
    IN  IF inst.raised
        THEN [m |-> inst.m, raised |-> TRUE, installed |-> FALSE, path |-> "", dir |-> "",
              success |-> FALSE, message |-> ""]
        ELSE [m |-> ens.m, raised |-> ens.raised, installed |-> TRUE, path |-> inst.path,
              dir |-> inst.dir, success |-> ens.success, message |-> ens.message]

\* The wrapper files force reinstall deletes, with their directories.
possible_paths ==
    IF platform = "Windows"
    THEN <<[dir |-> AppDataLocalBin, path |-> PathJoin(AppDataLocalBin, "ccui.bat")],
           [dir |-> HomeBin, path |-> PathJoin(HomeBin, "ccui.bat")],
           [dir |-> LocalBin, path |-> PathJoin(LocalBin, "ccui.bat")]>>
    ELSE <<[dir |-> LocalBin, path |-> PathJoin(LocalBin, "ccui")],
           [dir |-> HomeBin, path |-> PathJoin(HomeBin, "ccui")]>>

RECURSIVE unlink_existing(_, _)
\* for path in paths: if path.exists(): path.unlink()  -- the first refusal
\* raises and leaves the rest in place.
unlink_existing(mm, paths) ==
    IF paths = <<>> THEN [m |-> mm, raised |-> FALSE]
    ELSE IF ~FileExists(mm, Head(paths).path) THEN unlink_existing(mm, Tail(paths))
    ELSE LET gone == unlink(mm, Head(paths).dir, Head(paths).path)
         IN  IF gone.raised THEN gone ELSE unlink_existing(gone.m, Tail(paths))

\* force_reinstall_ccui_route: delete the wrappers in the listed directories,
\* install_ccui() with the default directory, ensure_local_bin_on_path -- all
\* in one try whose except reports and returns.
force_reinstall_ccui_route(mm) ==
    LET del == unlink_existing(mm, possible_paths)
        inst == install_ccui(del.m, "")
        ens == ensure_local_bin_on_path(inst.m)
    IN  IF del.raised
        THEN [m |-> del.m, raised |-> FALSE, installed |-> FALSE, path |-> "", dir |-> "",
              success |-> FALSE, message |-> "exception"]
        ELSE IF inst.raised
        THEN [m |-> inst.m, raised |-> FALSE, installed |-> FALSE, path |-> "", dir |-> "",
              success |-> FALSE, message |-> "exception"]
        ELSE IF ens.raised
        THEN [m |-> ens.m, raised |-> FALSE, installed |-> TRUE, path |-> inst.path,
              dir |-> inst.dir, success |-> FALSE, message |-> "exception"]
        ELSE [m |-> ens.m, raised |-> FALSE, installed |-> TRUE, path |-> inst.path,
              dir |-> inst.dir, success |-> ens.success, message |-> ens.message]

(***************************************************************************)
(* The installer specification: one request at a time calls the installer, *)
(* a reconciler or a route on a machine in any of the starting states.     *)
(***************************************************************************)

\* The process PATH grows with every successful setx; operations are followed
\* while it is no longer than this.
MaxProcPath == 60

\* An operation `name` with argument `arg` ran and gave result r.
FsStep(name, arg, r) ==
    /\ Len(m.procPath) <= MaxProcPath
    /\ m' = r.m
    /\ ret' = [raised |-> r.raised, installed |-> r.installed, path |-> r.path,
               dir |-> r.dir, success |-> r.success, message |-> r.message]
    /\ lastOp' = [name |-> name, arg |-> arg,
                  repeated |-> lastOp.name = name /\ lastOp.arg = arg]
    /\ UNCHANGED <<platform, statusSide, envVars, pureVars, fixVars>>

\* The target_dir arguments install_ccui is called with: None and a directory.
TargetDirs == {"", HomeBin}

InstallCcui ==
    \E target_dir \in TargetDirs :
        LET r == install_ccui(m, target_dir)
        IN  FsStep("install_ccui", target_dir,
                   [m |-> r.m, raised |-> r.raised, installed |-> ~r.raised, path |-> r.path,
                    dir |-> r.dir, success |-> ~r.raised, message |-> ""])

EnsureLocalBinOnPath ==
    LET r == ensure_local_bin_on_path(m)
    IN  FsStep("ensure_local_bin_on_path", "",
               [m |-> r.m, raised |-> r.raised, installed |-> FALSE, path |-> "",
                dir |-> "", success |-> r.success, message |-> r.message])

EnsureWindowsNpmOnPath ==
    LET r == ensure_windows_npm_on_path(m)
    IN  FsStep("ensure_windows_npm_on_path", "",
               [m |-> r.m, raised |-> r.raised, installed |-> FALSE, path |-> "",
                dir |-> "", success |-> r.success, message |-> r.message])

InstallCcuiRoute == FsStep("install_ccui_route", "", install_ccui_route(m))

ForceReinstallCcuiRoute ==
    FsStep("force_reinstall_ccui_route", "", force_reinstall_ccui_route(m))

\* A wrapper some earlier version left behind.
StaleWrapper == [content |-> "#!/bin/sh\nexec claude-old\n", exec |-> FALSE]

\* The starting PATH of the process.
StartProcPaths ==
    IF platform = "Windows" THEN {"C:\\Windows", "C:\\Windows;C:\\Users\\u\\.LOCAL\\bin"}
    ELSE {"/usr/bin:/bin"}

\* The directories that exist at the start, with those of them that hold a
\* wrapper.
StartDirs ==
    IF platform = "Windows"
    THEN {[dirs |-> {}, stale |-> {}],
          [dirs |-> {HomeBin}, stale |-> {HomeBin}],
          [dirs |-> {RoamingNpm, AppDataLocalBin}, stale |-> {AppDataLocalBin}]}
    ELSE {[dirs |-> {}, stale |-> {}],
          [dirs |-> {HomeBin}, stale |-> {HomeBin}],
          [dirs |-> {LocalBin}, stale |-> {}],
          [dirs |-> {LocalBin, HomeBin}, stale |-> {HomeBin}],
          [dirs |-> {LocalBin, HomeBin}, stale |-> {LocalBin, HomeBin}]}

\* What the startup files hold at the start: absent (<<>>), or a content.
StartZshrc ==
    IF platform = "Windows" THEN {<<>>}
    ELSE {<<>>, <<"# zsh\n">>, <<"export PATH=\"$HOME/bin:/home/u/.local/bin:$PATH\"\n">>}

StartZprofile == {<<>>}

StartDenied ==
    IF platform = "Windows" THEN {{}, {HomeBin}, {RoamingNpm}}
    ELSE {{}, {HomeBin}, {LocalBin}, {Zshrc}}

StartLaunchd == IF platform = "Darwin" THEN {"", "/usr/bin:/bin"} ELSE {""}

StartReg ==
    IF platform = "Windows"
    THEN {[exists |-> FALSE, name |-> "", value |-> ""],
          [exists |-> TRUE, name |-> "PATH", value |-> "C:\\Tools"],
          [exists |-> TRUE, name |-> "Path", value |-> "C:\\Tools"],
          [exists |-> TRUE, name |-> "PATH", value |-> "c:\\users\\u\\bin;C:\\Tools"]}
    ELSE {[exists |-> FALSE, name |-> "", value |-> ""]}

\* The files of a starting machine: stale wrappers in the directories of
\* `stale`, and the startup files that exist.
StartFiles(stale, zprofile, zshrc) ==
    LET ws == {PathJoin(d, WrapperName) : d \in stale}
        ps == IF platform # "Windows" /\ zprofile # <<>> THEN {Zprofile} ELSE {}
        rs == IF platform # "Windows" /\ zshrc # <<>> THEN {Zshrc} ELSE {}
    IN  [p \in ws \cup ps \cup rs |->
            IF p \in ws THEN StaleWrapper
            ELSE IF p \in ps THEN [content |-> zprofile[1], exec |-> FALSE]
            ELSE [content |-> zshrc[1], exec |-> FALSE]]

\* launchctl is there on macOS only; setx may fail.
StartStoreOk ==
    IF platform = "Darwin" THEN {TRUE}
    ELSE IF platform = "Linux" THEN {FALSE}
    ELSE BOOLEAN

InitFs ==
    /\ platform \in {"Windows", "Darwin", "Linux"}
    /\ \E start \in StartDirs, denied \in StartDenied, procPath \in StartProcPaths,
          launchd \in StartLaunchd, reg \in StartReg, storeOk \in StartStoreOk,
          zprofile \in StartZprofile, zshrc \in StartZshrc :
         m = [dirs |-> start.dirs, files |-> StartFiles(start.stale, zprofile, zshrc),
              denied |-> denied, procPath |-> procPath, launchd |-> launchd,
              reg |-> reg, storeOk |-> storeOk]
    /\ lastOp = NoOp
    /\ ret = NoRet
    /\ StatusQuiet
    /\ EnvQuiet
    /\ PureQuiet
    /\ FixQuiet

NextFs ==
    \/ InstallCcui
    \/ EnsureLocalBinOnPath
    \/ EnsureWindowsNpmOnPath
    \/ InstallCcuiRoute
    \/ ForceReinstallCcuiRoute

SpecFs == InitFs /\ [][NextFs]_vars

(***************************************************************************)
(* Claims about the installer and PATH reconciliation                      *)
(***************************************************************************)

\* What PATH reconciliation persists: the startup files (absent is <<>>),
\* launchctl's PATH and the registry's user PATH.
Persisted(mm) ==
    [zprofile |-> IF FileExists(mm, Zprofile) THEN <<mm.files[Zprofile].content>> ELSE <<>>,
     zshrc |-> IF FileExists(mm, Zshrc) THEN <<mm.files[Zshrc].content>> ELSE <<>>,
     launchd |-> mm.launchd,
     reg |-> mm.reg]

\* C5: PATH reconciliation is idempotent: once ensure_local_bin_on_path (the
\* POSIX or the Windows reconciler) or ensure_windows_npm_on_path has run,
\* running it again leaves the startup files, launchctl's PATH and the
\* registry's user PATH exactly as the first run left them.
C5_EnsureIdempotent ==
    /\ lastOp.name = "ensure_local_bin_on_path" =>
           Persisted(ensure_local_bin_on_path(m).m) = Persisted(m)
    /\ lastOp.name = "ensure_windows_npm_on_path" =>
           Persisted(ensure_windows_npm_on_path(m).m) = Persisted(m)

\* The reconciler has run twice in a row on a Mac whose .zshrc did not name
\* the directory: the file holds its old content and the export lines once,
\* and launchctl's PATH holds the directory once.
C5_Witness ==
    /\ platform = "Darwin"
    /\ lastOp.name = "ensure_local_bin_on_path"
    /\ lastOp.repeated
    /\ FileExists(m, Zshrc)
    /\ m.files[Zshrc].content = "# zsh\n" \o ExportBlock(m)
    /\ m.launchd = LocalBin \o ":/usr/bin:/bin"

\* A PATH entry as the shell reads it: a leading $HOME is the home directory.
ExpandHome(entry) ==
    IF StartsWith(entry, "$HOME") THEN Home \o SubSeq(entry, 6, Len(entry)) ELSE entry

\* The entries of the export PATH="..." lines of a startup file.
ExportEntries(mm, file) ==
    LET lines == Split(ReadOrEmpty(mm, file), "\n")
        values == {SubSeq(lines[i], Len("export PATH=\"") + 1, Len(lines[i]) - 1) :
                     i \in {k \in DOMAIN lines : StartsWith(lines[k], "export PATH=\"")}}
    IN  UNION {{ExpandHome(Split(v, ":")[k]) : k \in DOMAIN Split(v, ":")} : v \in values}

\* The elements of a PATH value.
PathEntries(value, sep) == {Split(value, sep)[k] : k \in DOMAIN Split(value, sep)}

\* Directory d is an element of a PATH the machine has: the persistent store's,
\* a startup file's export line, or the process's own.
OnSomePath(mm, d) ==
    IF platform = "Windows"
    THEN \E e \in PathEntries(mm.reg.value, ";") \cup PathEntries(mm.procPath, ";") :
            Lower(e) = Lower(d)
    ELSE d \in PathEntries(mm.launchd, ":") \cup PathEntries(mm.procPath, ":")
               \cup ExportEntries(mm, Zprofile) \cup ExportEntries(mm, Zshrc)

\* C6: after the install route or the force-reinstall route has installed the
\* wrapper with the default directory and its PATH reconciliation reported
\* success, the directory the wrapper was written to is on a PATH.
C6_WrapperDirOnPath ==
    (/\ lastOp.name \in {"install_ccui_route", "force_reinstall_ccui_route"}
     /\ ret.installed
     /\ ret.success) => OnSomePath(m, ret.dir)

\* C9: install_ccui is idempotent: once it has returned a path, a second call
\* with the same target_dir argument returns the same path and leaves there
\* the same bytes, which are the generated script whatever was there before;
\* a call that raised raises again.
C9_InstallIdempotent ==
    lastOp.name = "install_ccui" =>
        LET again == install_ccui(m, lastOp.arg)
        IN  IF ret.raised THEN again.raised
            ELSE /\ ~again.raised
                 /\ again.path = ret.path
                 /\ m.files[ret.path].content = generate_ccui_script
                 /\ again.m.files[again.path] = m.files[ret.path]

\* install_ccui() with the default directory has run twice in a row on a
\* machine without ~/.local/bin: the wrapper is in ~/bin.
C9_Witness ==
    /\ platform = "Linux"
    /\ lastOp = [name |-> "install_ccui", arg |-> "", repeated |-> TRUE]
    /\ ~ret.raised
    /\ ret.path = PathJoin(HomeBin, "ccui")
    /\ m.files[ret.path] = [content |-> generate_ccui_script, exec |-> TRUE]

EnsureOps == {"ensure_local_bin_on_path", "ensure_windows_npm_on_path"}

\* Every store the POSIX reconciler writes holds the directory: both startup
\* files name it and launchctl, which must be there, has it as an element.
UnixStoresHold(mm) ==
    /\ Contains(ReadOrEmpty(mm, Zprofile), LocalBin)
    /\ Contains(ReadOrEmpty(mm, Zshrc), LocalBin)
    /\ mm.storeOk
    /\ InList(LocalBin, Split(mm.launchd, ":"))

\* C11: a PATH reconciler never lets an exception out, and it reports success
\* only if no step failed: on POSIX only if the directory exists and the
\* startup files and launchctl's PATH hold it, on Windows only if the user
\* PATH in the registry holds a directory it manages.
C11_EnsureReportsFailure ==
    lastOp.name \in EnsureOps =>
        /\ ~ret.raised
        /\ ret.success /\ platform # "Windows" => LocalBin \in m.dirs /\ UnixStoresHold(m)
        /\ ret.success /\ platform = "Windows" =>
               \E d \in {HomeBin, AppDataLocalBin, LocalBin, RoamingNpm} :
                   Contains(Lower(m.reg.value), Lower(d))

\* C12: after a PATH reconciler returned success, the PATH of the process
\* holds the directory it reconciled: ~/.local/bin on POSIX, the npm global
\* directory for ensure_windows_npm_on_path, one of the wrapper directories
\* for ensure_windows_bin_on_path.
C12_ProcessPathHoldsDir ==
    lastOp.name \in EnsureOps /\ ~ret.raised /\ ret.success =>
        IF platform # "Windows"
        THEN lastOp.name = "ensure_local_bin_on_path" =>
                 LocalBin \in PathEntries(m.procPath, ":")
        ELSE IF lastOp.name = "ensure_windows_npm_on_path"
        THEN \E e \in PathEntries(m.procPath, ";") : Lower(e) = Lower(RoamingNpm)
        ELSE \E e \in PathEntries(m.procPath, ";"), i \in DOMAIN possible_dirs :
                 Contains(Lower(e), Lower(possible_dirs[i]))

\* C23: on Windows, whenever a reconciler writes the persistent user PATH,
\* the new value is the old one with the directory appended: every entry the
\* user PATH held before the call is in it afterwards, also when the read of
\* the registry fails or gives nothing that parses.
C23_UserPathKept ==
    platform = "Windows" =>
        \A r \in {ensure_windows_bin_on_path(m), ensure_windows_npm_on_path(m)} :
            r.m.reg # m.reg /\ m.reg.exists =>
                PathEntries(m.reg.value, ";") \subseteq PathEntries(r.m.reg.value, ";")

\* The shell startup files ensure_unix_bin_on_path writes to.
StartupFiles == {Zprofile, Zshrc}

\* C24: on POSIX, PATH reconciliation changes a shell startup file only by
\* appending, and only when the directory string does not occur in it: over
\* every step of ensure_local_bin_on_path the file's previous content is a
\* prefix of its new content, a file that exists keeps existing, and a file
\* that holds the directory string is unchanged.
C24_StartupFilesOnlyAppended ==
    [][platform # "Windows" /\ lastOp'.name = "ensure_local_bin_on_path" =>
         \A f \in StartupFiles :
             /\ StartsWith(ReadOrEmpty(m', f), ReadOrEmpty(m, f))
             /\ FileExists(m, f) => FileExists(m', f)
             /\ Contains(ReadOrEmpty(m, f), LocalBin) =>
                    /\ FileExists(m', f) = FileExists(m, f)
                    /\ ReadOrEmpty(m', f) = ReadOrEmpty(m, f)]_vars

\* The reconciler has run on a Linux machine whose .zshrc held a line of its
\* own and whose .zprofile was absent: .zshrc holds its old line followed by
\* the export lines and .zprofile holds the export lines alone.
C24_Witness ==
    /\ platform = "Linux"
    /\ lastOp.name = "ensure_local_bin_on_path"
    /\ ~lastOp.repeated
    /\ FileExists(m, Zshrc) /\ FileExists(m, Zprofile)
    /\ \E p \in StartProcPaths :
           LET block == "\n# Added by ccui setup: ensure local bin is on PATH\n"
                        \o "export PATH=\"" \o LocalBin \o ":" \o p \o "\"\n"
           IN  /\ m.files[Zshrc].content = "# zsh\n" \o block
               /\ m.files[Zprofile].content = block

(***************************************************************************)
(* auto_fix_environment                                                    *)
(*                                                                         *)
(* host says which tools find_command_path finds, whether npm install      *)
(* succeeds and whether the accounts database answers.                     *)
(***************************************************************************)

\* is_ccui_on_path(): which ccui on the process PATH; on Windows where ccui,
\* then where ccui.bat, on the PATH run_command_safely hands to the command
\* (the npm directory in front unless its string occurs in the PATH), with
\* file names compared without regard to case.
is_ccui_on_path(mm) ==
    IF platform = "Windows"
    THEN LET path == IF Contains(mm.procPath, RoamingNpm) THEN mm.procPath
                     ELSE RoamingNpm \o ";" \o mm.procPath
             wanted == {Lower(PathJoin(e, "ccui.bat")) : e \in PathEntries(path, ";")}
         IN  \E p \in DOMAIN mm.files : Lower(p) \in wanted
    ELSE \E e \in PathEntries(mm.procPath, ":") :
             /\ FileExists(mm, PathJoin(e, "ccui"))
             /\ mm.files[PathJoin(e, "ccui")].exec

\* Step 1: claude is there, or npm is there and installs it.
fix_claude_cli(h) ==
    IF h.claude THEN [host |-> h, fixed |-> TRUE, message |-> "Claude CLI exists"]
    ELSE IF ~h.npm THEN [host |-> h, fixed |-> FALSE, message |-> "npm not found"]
    ELSE IF h.installOk
    THEN [host |-> [h EXCEPT !.claude = TRUE], fixed |-> TRUE,
          message |-> "Claude CLI installed"]
    ELSE [host |-> h, fixed |-> FALSE, message |-> "Claude CLI install failed"]

\* Step 2, after the try: what install_ccui() gave is recorded.
ccui_fix(inst) ==
    IF inst.raised THEN [m |-> inst.m, fixed |-> FALSE, message |-> "ccui install failed"]
    ELSE [m |-> inst.m, fixed |-> TRUE, message |-> "ccui installed to: " \o inst.path]

\* Step 2: the wrapper is on the PATH, or install_ccui() inside a try.
fix_ccui(mm) ==
    IF is_ccui_on_path(mm) THEN [m |-> mm, fixed |-> TRUE, message |-> "ccui exists"]
    ELSE ccui_fix(install_ccui(mm, ""))

\* Step 3 on Windows, from the two reconcilers' results: fixed is
\* bool(bin_success and npm_success), the message joins the two.
windows_path_fix(bin, npm) ==
    IF bin.raised THEN [m |-> bin.m, raised |-> TRUE, fixed |-> FALSE, message |-> ""]
    ELSE [m |-> npm.m, raised |-> FALSE, fixed |-> bin.success /\ npm.success,
          message |-> bin.message \o "; " \o npm.message]

\* ensure_windows_npm_on_path() runs on what ensure_windows_bin_on_path() left.
windows_path_config(bin) == windows_path_fix(bin, ensure_windows_npm_on_path(bin.m))

\* Step 3 elsewhere: success, message = ensure_local_bin_on_path()
local_path_fix(r) ==
    [m |-> r.m, raised |-> r.raised, fixed |-> r.success, message |-> r.message]

\* Step 3: the reconcilers, called outside any try.
fix_path_config(mm) ==
    IF platform = "Windows" THEN windows_path_config(ensure_windows_bin_on_path(mm))
    ELSE local_path_fix(ensure_local_bin_on_path(mm))

\* A mutant of overall_success: every component must be fixed.
overall_success_all(fix_results) ==
    LET fixed_count == Cardinality({c \in FixComponents : fix_results[c].fixed})
        total_attempts == Cardinality(FixComponents)
    IN  fixed_count >= total_attempts

\* Step 5: fixed_count >= total_attempts - 1
overall_success(fix_results) ==
    LET fixed_count == Cardinality({c \in FixComponents : fix_results[c].fixed})
        total_attempts == Cardinality(FixComponents)
    IN  fixed_count >= total_attempts - 1

\* accounts[0] of Account.query.all(): the row with the least id (the table is
\* scanned in rowid order).
FirstAccount == accounts[CHOOSE id \in DOMAIN accounts : \A j \in DOMAIN accounts : id <= j]

\* Step 4, what it reports: the database fails, there is no account, or the
\* first account is written to the file and applied.
fix_env_files ==
    IF ~host.dbOk THEN [written |-> FALSE, fixed |-> FALSE, message |-> "database access failed"]
    ELSE IF DOMAIN accounts = {}
    THEN [written |-> FALSE, fixed |-> TRUE, message |-> "no accounts, skipped"]
    ELSE IF envWritable
    THEN [written |-> TRUE, fixed |-> TRUE, message |-> "environment file updated"]
    ELSE [written |-> FALSE, fixed |-> FALSE, message |-> "environment file update failed"]

\* fix_results after steps 1 and 2.
FixUpto2(c1, c2) ==
    [NoFix EXCEPT !.claude_cli = [fixed |-> c1.fixed, message |-> c1.message],
                  !.ccui = [fixed |-> c2.fixed, message |-> c2.message]]

\* fix_results after step 4, before the summary.
FixUpto4(c1, c2, c3, c4) ==
    [FixUpto2(c1, c2) EXCEPT
        !.path_config = [fixed |-> c3.fixed, message |-> c3.message],
        !.env_files = [fixed |-> c4.fixed, message |-> c4.message]]

\* fix_results as returned: the summary added.
FixReturned(upto4) ==
    [upto4 EXCEPT !.attempted = FixComponents,
                  !.overall_success = overall_success(upto4),
                  !.done = TRUE]

\* The steps of auto_fix_environment from their results.  An exception out of
\* step 3 leaves the function: step 4 and the summary are not reached.
AutoFixSteps(c1, c2, c3, c4) ==
    /\ host' = c1.host
    /\ m' = c3.m
    /\ IF c3.raised
       THEN /\ fix' = [FixUpto2(c1, c2) EXCEPT
                          !.attempted = {"claude_cli", "ccui", "path_config"},
                          !.raised = TRUE]
            /\ UNCHANGED <<envFile, persist, environ>>
       ELSE /\ fix' = FixReturned(FixUpto4(c1, c2, c3, c4))
            /\ IF c4.written
               THEN /\ envFile' = [exists |-> TRUE,
                                   content |-> env_content(FirstAccount.baseurl,
                                                           FirstAccount.apikey)]
                    /\ persist' = IF persistOk
                                  THEN [persist EXCEPT
                                           ![ENV_BASE_URL] = FirstAccount.baseurl,
                                           ![ENV_AUTH_TOKEN] = FirstAccount.apikey]
                                  ELSE persist
                    /\ environ' = [environ EXCEPT
                                      ![ENV_BASE_URL] = FirstAccount.baseurl,
                                      ![ENV_AUTH_TOKEN] = FirstAccount.apikey]
               ELSE UNCHANGED <<envFile, persist, environ>>
    /\ UNCHANGED <<platform, statusSide, pureVars, lastOp, ret, accounts, envWritable,
                   persistOk, epc, ereq>>

\* Step 3 runs on the machine step 2 left.
AutoFixFromCcui(c1, c2) == AutoFixSteps(c1, c2, fix_path_config(c2.m), fix_env_files)

\* auto_fix_environment(): the four steps in turn and the summary.
AutoFixEnvironment ==
    /\ Len(m.procPath) <= MaxProcPath
    /\ AutoFixFromCcui(fix_claude_cli(host), fix_ccui(m))

\* The pair apply_env_settings puts in a store for a row.
PairOf(account) ==
    [n \in EnvNames |-> IF n = ENV_BASE_URL THEN account.baseurl ELSE account.apikey]

\* set_default(account_id) as one request with nothing running beside it: 404
\* for an id that is not in the table; otherwise apply_env_settings writes the
\* file (a refusal raises out of the request), then the persistent store, then
\* the process environment.
SetDefaultRequest ==
    /\ \E account_id \in 1..3 :
         IF account_id \notin DOMAIN accounts
         THEN /\ epc' = [epc EXCEPT ![1] = "notfound"]
              /\ UNCHANGED <<ereq, envFile, persist, environ>>
         ELSE /\ ereq' = [ereq EXCEPT ![1] = accounts[account_id]]
              /\ IF envWritable
                 THEN /\ epc' = [epc EXCEPT ![1] = "done"]
                      /\ envFile' = [exists |-> TRUE,
                                     content |-> env_content(accounts[account_id].baseurl,
                                                             accounts[account_id].apikey)]
                      /\ persist' = IF persistOk THEN PairOf(accounts[account_id]) ELSE persist
                      /\ environ' = PairOf(accounts[account_id])
                 ELSE /\ epc' = [epc EXCEPT ![1] = "failed"]
                      /\ UNCHANGED <<envFile, persist, environ>>
    /\ UNCHANGED <<platform, statusSide, pureVars, fsVars, fixVars, accounts, envWritable,
                   persistOk>>

\* The hosts an auto fix starts on: claude there; claude missing with npm that
\* installs it, npm that fails, or no npm; the database answering or not.
StartHosts ==
    {[claude |-> c, npm |-> n, installOk |-> i, dbOk |-> d] :
        c \in BOOLEAN, n \in BOOLEAN, i \in BOOLEAN, d \in BOOLEAN}

\* The auto-fix specification: auto_fix_environment run again and again on a
\* machine, at startup and from /environment_fix, with set_default requests
\* between the runs.
InitFix ==
    /\ platform \in {"Windows", "Darwin", "Linux"}
    /\ \E start \in StartDirs, denied \in StartDenied, storeOk \in StartStoreOk :
         /\ m = [dirs |-> start.dirs, files |-> StartFiles(start.stale, <<>>, <<>>),
                 denied |-> denied,
                 procPath |-> IF platform = "Windows" THEN "C:\\Windows" ELSE "/usr/bin:/bin",
                 launchd |-> "",
                 reg |-> [exists |-> FALSE, name |-> "", value |-> ""],
                 storeOk |-> storeOk]
         /\ persistOk = storeOk
    /\ host \in {h \in StartHosts : (h.claude => h.npm /\ h.installOk) /\ (~h.npm => ~h.installOk)}
    /\ fix = NoFix
    /\ accounts \in {StoredAccounts, <<>>}
    /\ envWritable \in BOOLEAN
    /\ envFile = [exists |-> FALSE, content |-> ""]
    /\ persist = NoEnv
    /\ environ = NoEnv
    /\ epc = [t \in Threads |-> "idle"]
    /\ ereq = [t \in Threads |-> [baseurl |-> "", apikey |-> ""]]
    /\ lastOp = NoOp
    /\ ret = NoRet
    /\ StatusQuiet
    /\ PureQuiet

NextFix ==
    \/ AutoFixEnvironment
    \/ SetDefaultRequest

SpecFix == InitFix /\ [][NextFix]_vars

\* C18: auto_fix_environment attempts every remediation in turn: a failure in
\* a component, an exception raised inside it included, is recorded as that
\* component's fixed = false with a message and does not keep the later
\* components from being attempted, and auto_fix_environment does not raise.
C18_EveryRemediationAttempted ==
    fix # NoFix =>
        /\ ~fix.raised
        /\ fix.attempted = FixComponents
        /\ \A c \in FixComponents : ~fix[c].fixed => fix[c].message # ""

\* C19: the overall-success flag is true exactly when at most one of the four
\* components is reported not fixed.
C19_OverallToleratesOne ==
    fix.done =>
        (fix.overall_success <=>
            Cardinality({c \in {"claude_cli", "ccui", "path_config", "env_files"} :
                            ~fix[c].fixed}) <= 1)

C19_Witness ==
    /\ fix.done
    /\ fix.overall_success
    /\ ~fix.ccui.fixed
    /\ fix.claude_cli.fixed /\ fix.path_config.fixed /\ fix.env_files.fixed

\* C28: the active profile survives auto-fix: once set_default has written a
\* profile into the environment, a step that is not another activation (a run
\* of auto_fix_environment) leaves the environment file and the process
\* environment holding that profile's base URL and token.
C28_ActiveProfileSurvivesAutoFix ==
    [][epc[1] = "done" /\ UNCHANGED <<epc, ereq>> =>
          /\ environ' = PairOf(ereq[1])
          /\ envFile'.content = env_content(ereq[1].baseurl, ereq[1].apikey)]_vars

\* C30: auto_fix_environment is idempotent on persisted state: once a run has
\* been made, a further run creates or modifies no wrapper file, no shell
\* startup file and no persistent PATH entry (launchctl's PATH, the registry's
\* user PATH); in particular it installs no wrapper in another directory.
C30_AutoFixIdempotent ==
    [][fix.attempted # {} =>
          /\ m'.files = m.files
          /\ m'.launchd = m.launchd
          /\ m'.reg = m.reg]_vars

(***************************************************************************)
(* The remote version oracle and its cache                                 *)
(***************************************************************************)

\* What get_npm_latest_version can hand back on one call: a string (empty on a
\* caught failure or a missing field) or an exception it does not catch.
OracleOutcomes ==
    {[raised |-> FALSE, value |-> v] : v \in {"", "1.0.5", "1.0.15"}}
        \cup {[raised |-> TRUE, value |-> ""]}

\* get_cached_latest_version(): the override first, then the cached value.
get_cached_latest_version == IF forced # "" THEN forced ELSE cache

\* A mutant of RefresherQuery: an exception of the oracle is not caught and
\* ends the thread.
RefresherQueryUncaught ==
    /\ rpc = "query"
    /\ \E o \in OracleOutcomes :
         IF o.raised
         THEN /\ rpc' = "dead"
              /\ UNCHANGED <<rlatest, lastNonEmpty>>
         ELSE /\ rpc' = "store"
              /\ rlatest' = o.value
              /\ lastNonEmpty' = IF o.value # "" THEN o.value ELSE lastNonEmpty
    /\ UNCHANGED <<platform, envVars, fsVars, pureVars, fixVars, cache, forced, statusVars>>

\* The refresher's call of the oracle, inside its try.
RefresherQuery ==
    /\ rpc = "query"
    /\ \E o \in OracleOutcomes :
         IF o.raised
         THEN /\ rpc' = "sleep"
              /\ UNCHANGED <<rlatest, lastNonEmpty>>
         ELSE /\ rpc' = "store"
              /\ rlatest' = o.value
              /\ lastNonEmpty' = IF o.value # "" THEN o.value ELSE lastNonEmpty
    /\ UNCHANGED <<platform, envVars, fsVars, pureVars, fixVars, cache, forced, statusVars>>

\* A mutant of RefresherStore: the result is stored even when it is empty.
RefresherStoreAlways ==
    /\ rpc = "store"
    /\ cache' = rlatest
    /\ rpc' = "sleep"
    /\ UNCHANGED <<platform, envVars, fsVars, pureVars, fixVars, forced, rlatest, lastNonEmpty, statusVars>>

\* `if latest: set_cached_latest_version(latest)` (the time stamp the setter
\* also records is never read and is left out).
RefresherStore ==
    /\ rpc = "store"
    /\ cache' = IF rlatest # "" THEN rlatest ELSE cache
    /\ rpc' = "sleep"
    /\ UNCHANGED <<platform, envVars, fsVars, pureVars, fixVars, forced, rlatest, lastNonEmpty, statusVars>>

\* time.sleep(interval_seconds) returns and the loop starts over.
RefresherWake ==
    /\ rpc = "sleep"
    /\ rpc' = "query"
    /\ UNCHANGED <<platform, envVars, fsVars, pureVars, fixVars, cache, forced, rlatest, lastNonEmpty, statusVars>>

(***************************************************************************)
(* Version detection                                                       *)
(***************************************************************************)

NotFound == [code |-> 127, out |-> ""]

\* The claude executable's absolute path, where find_command_path finds one.
ClaudeAbsPath == IF platform = "Windows" THEN "C:\\npm\\claude.cmd" ELSE "/usr/local/bin/claude"

\* commands_to_try, each command written as its words joined by a space.
commands_to_try(claude_path) ==
    (IF claude_path # ""
     THEN <<claude_path \o " --version", claude_path \o " -v">>
     ELSE <<>>)
    \o <<"claude-code --version">>
    \o (IF platform = "Windows"
        THEN <<"claude.cmd --version", "claude.cmd -v">>
        ELSE <<>>)
    \o <<"claude -v", "claude --version">>

RECURSIVE FirstProbe(_, _)
\* The loop over commands_to_try: answers maps a command to run_command_safely's
\* (code, out), out stripped; a command it does not name is not found.
FirstProbe(cmds, answers) ==
    IF cmds = <<>> THEN <<FALSE, "">>
    ELSE LET r == IF Head(cmds) \in DOMAIN answers THEN answers[Head(cmds)] ELSE NotFound
         IN  IF r.code = 0 /\ r.out # ""
             THEN <<TRUE, IF extract_semver(r.out) # "" THEN extract_semver(r.out) ELSE Strip(r.out)>>
             ELSE FirstProbe(Tail(cmds), answers)

\* A mutant of get_cli_claude_code_version: with a resolved path only the two
\* probes through that path are tried.
get_cli_claude_code_version_path_only(claude_path, answers) ==
    IF claude_path # ""
    THEN FirstProbe(<<claude_path \o " --version", claude_path \o " -v">>, answers)
    ELSE FirstProbe(commands_to_try(claude_path), answers)

get_cli_claude_code_version(claude_path, answers) ==
    FirstProbe(commands_to_try(claude_path), answers)

RECURSIVE ProbeBlocks(_, _, _)
\* Whether the loop reaches a command that never exits before one succeeds:
\* subprocess.run is called without a timeout and waits for the command.
ProbeBlocks(cmds, answers, hangs) ==
    IF cmds = <<>> THEN FALSE
    ELSE IF Head(cmds) \in hangs THEN TRUE
    ELSE LET r == IF Head(cmds) \in DOMAIN answers THEN answers[Head(cmds)] ELSE NotFound
         IN  IF r.code = 0 /\ r.out # "" THEN FALSE
             ELSE ProbeBlocks(Tail(cmds), answers, hangs)

\* What the machine answers to the probes: the path find_command_path returns
\* ("" for None), the commands that do not fail with "not found", and the
\* commands that never exit.
CliEnvironments ==
    { [path |-> "", answers |-> <<>>, hangs |-> {}],
      [path |-> "", answers |-> [c \in {"claude -v", "claude --version"} |->
                                    [code |-> 0, out |-> "1.0.30 (Claude Code)"]],
       hangs |-> {}],
      [path |-> "", answers |-> [c \in {"claude-code --version"} |->
                                    [code |-> 0, out |-> "1.0.9"]],
       hangs |-> {"claude -v"}],
      [path |-> "", answers |-> <<>>, hangs |-> {"claude -v"}],
      [path |-> ClaudeAbsPath, answers |-> [c \in {ClaudeAbsPath \o " --version"} |->
                                    [code |-> 0, out |-> "dev build"]],
       hangs |-> {}],
      [path |-> ClaudeAbsPath, answers |->
          [c \in {ClaudeAbsPath \o " --version", ClaudeAbsPath \o " -v", "claude -v"} |->
               IF c = "claude -v" THEN [code |-> 0, out |-> "1.0.15"]
               ELSE IF c = ClaudeAbsPath \o " -v" THEN [code |-> 0, out |-> ""]
               ELSE [code |-> 1, out |-> ""]],
       hangs |-> {}] }

target_ids == <<"anthropic.claude-code", "anthropic.claude">>

\* The first of target_ids that `line` starts with, followed by "@"; 0 when none.
MatchingId(line) ==
    LET hits == {k \in 1..Len(target_ids) : StartsWith(line, target_ids[k] \o "@")}
    IN  IF hits = {} THEN 0 ELSE CHOOSE k \in hits : \A j \in hits : k <= j

RECURSIVE FirstExtension(_)
\* The loop over out.splitlines(): the first line that names a target id.
FirstExtension(lines) ==
    IF lines = <<>> THEN <<FALSE, "", "">>
    ELSE LET line == Strip(Head(lines))
             k    == MatchingId(line)
         IN  IF k > 0
             THEN <<TRUE, target_ids[k],
                    SubSeq(line, Len(target_ids[k]) + 2, Len(line))>>
             ELSE FirstExtension(Tail(lines))

\* get_vscode_claude_code_version on (code, out) of `code --list-extensions
\* --show-versions`; out is stripped, so splitlines() is a split at line feeds.
get_vscode_claude_code_version(r) ==
    IF r.code # 0 \/ r.out = "" THEN <<FALSE, "", "">>
    ELSE FirstExtension(Split(r.out, "\n"))

ExtEnvironments ==
    { NotFound,
      [code |-> 0, out |-> "ms-python.python@2024.2.1"],
      [code |-> 0, out |-> "ms-python.python@2024.2.1\nanthropic.claude-code@1.0.10"],
      [code |-> 0, out |-> "anthropic.claude@1.0.5\nanthropic.claude-code@1.0.10"],
      [code |-> 0, out |-> "anthropic.claude-code@"] }

(***************************************************************************)
(* Status aggregation: get_claude_code_status                              *)
(***************************************************************************)

NoStatus ==
    [installed |-> FALSE, source |-> "", current_version |-> "", latest_version |-> "",
     needs_upgrade |-> FALSE, vscode_ext_id |-> ""]

\* A mutant of needs_upgrade: an equal version counts as older.
needs_upgrade_nonstrict(current, lat) ==
    lat # "" /\ current # "" /\ compare_semver(current, lat) <= 0

\* bool(latest and current and compare_semver(current, latest) < 0)
needs_upgrade(current, lat) ==
    lat # "" /\ current # "" /\ compare_semver(current, lat) < 0

\* The record of the branch taken: CLI, else extension, else not installed.
BuildStatus(cli, ext, lat) ==
    IF cli[1]
    THEN [installed |-> TRUE, source |-> "cli", current_version |-> cli[2],
          latest_version |-> lat, needs_upgrade |-> needs_upgrade(cli[2], lat),
          vscode_ext_id |-> ""]
    ELSE IF ext[1]
    THEN [installed |-> TRUE, source |-> "vscode", current_version |-> ext[3],
          latest_version |-> lat, needs_upgrade |-> needs_upgrade(ext[3], lat),
          vscode_ext_id |-> ext[2]]
    ELSE [installed |-> FALSE, source |-> "", current_version |-> "",
          latest_version |-> lat, needs_upgrade |-> FALSE, vscode_ext_id |-> ""]

\* A request enters get_claude_code_status; the machine's answers are fixed
\* for the call.
StatusStart ==
    /\ spc \in {"idle", "done", "raised"}
    /\ \E ce \in CliEnvironments, xe \in ExtEnvironments :
         /\ cliEnv' = ce
         /\ extEnv' = xe
    /\ spc' = "cli"
    /\ cliRes' = <<FALSE, "">>
    /\ extRes' = <<FALSE, "", "">>
    /\ extCalls' = 0
    /\ latest' = ""
    /\ cacheAtRead' = ""
    /\ readValue' = ""
    /\ oracleGot' = ""
    /\ oracleCalls' = 0
    /\ status' = NoStatus
    /\ UNCHANGED <<platform, envVars, fsVars, pureVars, fixVars, cacheVars>>

\* A mutant of StatusCli: the extension detector is consulted in every case.
StatusCliThenExt ==
    /\ spc = "cli"
    /\ ~ProbeBlocks(commands_to_try(cliEnv.path), cliEnv.answers, cliEnv.hangs)
    /\ cliRes' = get_cli_claude_code_version(cliEnv.path, cliEnv.answers)
    /\ spc' = "ext"
    /\ UNCHANGED <<platform, envVars, fsVars, pureVars, fixVars, cacheVars, cliEnv, extEnv, extRes, extCalls, latest,
                   cacheAtRead, readValue, oracleGot, oracleCalls, status>>

\* cli_installed, cli_version = get_cli_claude_code_version(); the call does
\* not return while a probed command runs.
StatusCli ==
    /\ spc = "cli"
    /\ ~ProbeBlocks(commands_to_try(cliEnv.path), cliEnv.answers, cliEnv.hangs)
    /\ cliRes' = get_cli_claude_code_version(cliEnv.path, cliEnv.answers)
    /\ spc' = IF cliRes'[1] THEN "cache" ELSE "ext"
    /\ UNCHANGED <<platform, envVars, fsVars, pureVars, fixVars, cacheVars, cliEnv, extEnv, extRes, extCalls, latest,
                   cacheAtRead, readValue, oracleGot, oracleCalls, status>>

\* installed, ext_id, current = get_vscode_claude_code_version()
StatusExt ==
    /\ spc = "ext"
    /\ extRes' = get_vscode_claude_code_version(extEnv)
    /\ extCalls' = extCalls + 1
    /\ spc' = "cache"
    /\ UNCHANGED <<platform, envVars, fsVars, pureVars, fixVars, cacheVars, cliEnv, extEnv, cliRes, latest, cacheAtRead,
                   readValue, oracleGot, oracleCalls, status>>

\* A mutant of StatusReadCache: the oracle is asked whatever the cache holds.
StatusReadCacheThenQuery ==
    /\ spc = "cache"
    /\ latest' = get_cached_latest_version
    /\ cacheAtRead' = cache
    /\ readValue' = get_cached_latest_version
    /\ spc' = "oracle"
    /\ UNCHANGED <<platform, envVars, fsVars, pureVars, fixVars, cacheVars, cliEnv, extEnv, cliRes, extRes, extCalls,
                   oracleGot, oracleCalls, status>>

\* latest = get_cached_latest_version() or "", under the cache lock.
StatusReadCache ==
    /\ spc = "cache"
    /\ latest' = get_cached_latest_version
    /\ cacheAtRead' = cache
    /\ readValue' = get_cached_latest_version
    /\ spc' = IF latest' = "" THEN "oracle" ELSE "build"
    /\ UNCHANGED <<platform, envVars, fsVars, pureVars, fixVars, cacheVars, cliEnv, extEnv, cliRes, extRes, extCalls,
                   oracleGot, oracleCalls, status>>

\* if not latest: latest = get_npm_latest_version(...) or "".  An exception
\* the oracle does not catch leaves get_claude_code_status without a record.
StatusOracle ==
    /\ spc = "oracle"
    /\ oracleCalls' = oracleCalls + 1
    /\ \E o \in OracleOutcomes :
         IF o.raised
         THEN /\ spc' = "raised"
              /\ UNCHANGED <<latest, oracleGot>>
         ELSE /\ spc' = "build"
              /\ latest' = o.value
              /\ oracleGot' = o.value
    /\ UNCHANGED <<platform, envVars, fsVars, pureVars, fixVars, cacheVars, cliEnv, extEnv, cliRes, extRes, extCalls,
                   cacheAtRead, readValue, status>>

\* result = {...}; return result
StatusBuild ==
    /\ spc = "build"
    /\ status' = BuildStatus(cliRes, extRes, latest)
    /\ spc' = "done"
    /\ UNCHANGED <<platform, envVars, fsVars, pureVars, fixVars, cacheVars, cliEnv, extEnv, cliRes, extRes, extCalls, latest,
                   cacheAtRead, readValue, oracleGot, oracleCalls>>

(***************************************************************************)
(* The status specification: one refresher thread and the request flow     *)
(***************************************************************************)

InitStatus ==
    /\ platform \in {"Windows", "Linux"}
    /\ cache = ""
    /\ forced \in {"", "1.0.40"}
    /\ rpc = "query"
    /\ rlatest = ""
    /\ lastNonEmpty = ""
    /\ spc = "idle"
    /\ cliEnv = [path |-> "", answers |-> <<>>, hangs |-> {}]
    /\ extEnv = NotFound
    /\ cliRes = <<FALSE, "">>
    /\ extRes = <<FALSE, "", "">>
    /\ extCalls = 0
    /\ latest = ""
    /\ cacheAtRead = ""
    /\ readValue = ""
    /\ oracleGot = ""
    /\ oracleCalls = 0
    /\ status = NoStatus
    /\ EnvQuiet
    /\ FsQuiet
    /\ PureQuiet
    /\ FixQuiet

NextStatus ==
    \/ RefresherQuery
    \/ RefresherStore
    \/ RefresherWake
    \/ StatusStart
    \/ StatusCli
    \/ StatusExt
    \/ StatusReadCache
    \/ StatusOracle
    \/ StatusBuild

SpecStatus == InitStatus /\ [][NextStatus]_vars

\* The steps of a get_claude_code_status call after it has begun.
StatusStep ==
    \/ StatusCli
    \/ StatusExt
    \/ StatusReadCache
    \/ StatusOracle
    \/ StatusBuild

NextCall ==
    \/ StatusStart
    \/ StatusStep

\* A call is at a step that can run: it has begun, has not returned, and is
\* not waiting for a probed command.
CallCanStep ==
    /\ spc \in {"cli", "ext", "cache", "oracle", "build"}
    /\ spc = "cli" => ~ProbeBlocks(commands_to_try(cliEnv.path), cliEnv.answers, cliEnv.hangs)

\* The call moves on from a step that can run.
CallAdvances ==
    /\ CallCanStep
    /\ spc' \in {"ext", "cache", "oracle", "build", "done", "raised"}
    /\ spc' # spc

\* The request flow alone, with the scheduling of its thread: a call at a step
\* that can run does not stay there for ever.
SpecCallFair == InitStatus /\ [][NextCall]_vars /\ WF_spc(CallAdvances)

\* The refresher thread is inside its loop: at the oracle call, at the store,
\* or asleep.
RefresherCanStep == rpc \in {"query", "store", "sleep"}

\* The refresher moves on to the next point of its loop.
RefresherAdvances ==
    /\ RefresherCanStep
    /\ rpc' \in {"query", "store", "sleep"}
    /\ rpc' # rpc

\* The refresher and the request flow, with the scheduling of the refresher's
\* thread: the oracle call ends (it carries a timeout), the store ends, the
\* sleep ends.
SpecRefresherFair == InitStatus /\ [][NextStatus]_vars /\ WF_rpc(RefresherAdvances)

(***************************************************************************)
(* Functions a caller applies to a value: the registry query, the version  *)
(* helpers, the key mask                                                   *)
(***************************************************************************)

\* Python values as json.loads gives them.
PyStr(s) == [kind |-> "str", s |-> s]

PyDict(items) == [kind |-> "dict", items |-> items]

PyList == [kind |-> "list"]

PyNone == [kind |-> "NoneType"]

\* The class an exception class derives from.
BaseOf ==
    [HTTPError |-> "URLError", URLError |-> "OSError", TimeoutError |-> "OSError",
     ConnectionResetError |-> "ConnectionError", ConnectionError |-> "OSError",
     IncompleteRead |-> "HTTPException", HTTPException |-> "Exception",
     OSError |-> "Exception", JSONDecodeError |-> "ValueError",
     UnicodeDecodeError |-> "ValueError", ValueError |-> "Exception",
     KeyError |-> "LookupError", LookupError |-> "Exception",
     AttributeError |-> "Exception"]

RECURSIVE IsInstance(_, _)
\* isinstance(exc, cls), exc named by its class
IsInstance(exc, cls) ==
    \/ exc = cls
    \/ exc \in DOMAIN BaseOf /\ IsInstance(BaseOf[exc], cls)

\* json.loads(text) for the bodies a registry, a proxy or a captive portal
\* answers with: the value decoded, or JSONDecodeError.
json_loads(text) ==
    LET decoded ==
            "{\"dist-tags\":{\"latest\":\"1.0.5\"}}"
                :> PyDict("dist-tags" :> PyDict("latest" :> PyStr("1.0.5")))
            @@ "{\"dist-tags\":{\"next\":\"2.0.0\"}}"
                :> PyDict("dist-tags" :> PyDict("next" :> PyStr("2.0.0")))
            @@ "{\"dist-tags\":[]}" :> PyDict("dist-tags" :> PyList)
            @@ "{\"dist-tags\":null}" :> PyDict("dist-tags" :> PyNone)
            @@ "{\"error\":\"Not found\"}" :> PyDict("error" :> PyStr("Not found"))
            @@ "{}" :> PyDict(<<>>)
            @@ "[]" :> PyList
            @@ "\"ok\"" :> PyStr("ok")
            @@ "null" :> PyNone
    IN  IF text \in DOMAIN decoded THEN [raised |-> FALSE, exc |-> "", value |-> decoded[text]]
        ELSE [raised |-> TRUE, exc |-> "JSONDecodeError", value |-> PyNone]

\* value.get(key, default): only a dict has the method.
py_get(value, key, default) ==
    IF value.kind # "dict" THEN [raised |-> TRUE, exc |-> "AttributeError", value |-> PyNone]
    ELSE [raised |-> FALSE, exc |-> "",
          value |-> IF key \in DOMAIN value.items THEN value.items[key] ELSE default]

\* What the request meets: an error at some stage of the exchange, or a body.
\* urlopen turns an OSError met while connecting and sending into URLError; an
\* error met while the response is awaited or read comes out as it is.
NpmOutcomes ==
    {[stage |-> "request", error |-> e, body |-> ""] :
        e \in {"URLError", "TimeoutError", "ConnectionResetError"}}
    \cup {[stage |-> "response", error |-> e, body |-> ""] :
        e \in {"HTTPError", "TimeoutError", "ConnectionResetError"}}
    \cup {[stage |-> "read", error |-> e, body |-> ""] :
        e \in {"TimeoutError", "ConnectionResetError", "IncompleteRead", "UnicodeDecodeError"}}
    \cup {[stage |-> "body", error |-> "", body |-> b] :
        b \in {"{\"dist-tags\":{\"latest\":\"1.0.5\"}}", "{\"dist-tags\":{\"next\":\"2.0.0\"}}",
               "{\"dist-tags\":[]}", "{\"dist-tags\":null}", "{\"error\":\"Not found\"}",
               "{}", "[]", "\"ok\"", "null", "<html>Bad Gateway</html>", ""}}

\* The exception urlopen / resp.read().decode() lets out for an outcome.
RequestError(o) ==
    IF o.stage = "request" /\ IsInstance(o.error, "OSError") /\ ~IsInstance(o.error, "URLError")
    THEN "URLError" ELSE o.error

\* The except clause of get_npm_latest_version.
NpmCaught(exc) ==
    \E cls \in {"URLError", "TimeoutError", "ValueError", "KeyError"} : IsInstance(exc, cls)

\* get_npm_latest_version(package_name) for an outcome of the request: the
\* latest dist-tag of the decoded body; "" for an exception the except clause
\* names; any other exception leaves the function.
get_npm_latest_version(o) ==
    LET loaded == json_loads(o.body)
        dist_tags == py_get(loaded.value, "dist-tags", PyDict(<<>>))
        tag == py_get(dist_tags.value, "latest", PyStr(""))
        exc == IF o.stage # "body" THEN RequestError(o)
               ELSE IF loaded.raised THEN loaded.exc
               ELSE IF dist_tags.raised THEN dist_tags.exc
               ELSE IF tag.raised THEN tag.exc
               ELSE ""
    IN  IF exc = "" THEN [raised |-> FALSE, exc |-> "", value |-> tag.value]
        ELSE IF NpmCaught(exc) THEN [raised |-> FALSE, exc |-> "", value |-> PyStr("")]
        ELSE [raised |-> TRUE, exc |-> exc, value |-> PyNone]

\* What a pure call leaves alone.
PureFrame == UNCHANGED <<platform, statusSide, envVars, fsVars, fixVars>>

\* A caller queries the registry.
CallGetNpmLatestVersion ==
    /\ \E o \in NpmOutcomes :
         /\ call' = [fn |-> "get_npm_latest_version", args |-> <<o>>]
         /\ answer' = get_npm_latest_version(o)
    /\ PureFrame

\* The version strings a caller compares: numeric versions, the empty string,
\* and strings with a component that int() refuses.
Versions ==
    {"", "1.2.10", "1.3.0", "1.10.10", "2.0.0", "1.0", "1.0.0", "1.00",
     "9.0", "10.0", "10.a", "v1.0"}

\* The texts a caller extracts a version from.
Texts ==
    {"", "1.2.3", "v1.2.3-beta", "1.0.15 (Claude Code)", "no version", "1.2",
     "1.2.x 3.4.5", "12.34.56.78", "a1.2.3b4.5.6", "1..2.3", ".1.2.3."}

\* A caller compares two versions.
CallCompareSemver ==
    /\ \E a \in Versions, b \in Versions :
         /\ call' = [fn |-> "compare_semver", args |-> <<a, b>>]
         /\ answer' = compare_semver(a, b)
    /\ PureFrame

\* A caller extracts the version from a text.
CallExtractSemver ==
    /\ \E text \in Texts :
         /\ call' = [fn |-> "extract_semver", args |-> <<text>>]
         /\ answer' = extract_semver(text)
    /\ PureFrame

\* os.environ.get(name) of a variable that is not set.
Unset == "<unset>"

\* main(), from debug_flag_env on: the debug flag, the reloader flag and the
\* number of refresher threads main starts in the process it runs in.
main_flags(osenv) ==
    LET debug_flag ==
            IF osenv.FLASK_TEST = "1" THEN FALSE
            ELSE IF osenv.FLASK_DEBUG # Unset THEN osenv.FLASK_DEBUG = "1"
            ELSE TRUE
        use_reloader ==
            IF osenv.FLASK_USE_RELOADER # Unset THEN osenv.FLASK_USE_RELOADER = "1"
            ELSE debug_flag
        should_start_thread == ~debug_flag \/ osenv.WERKZEUG_RUN_MAIN = "true"
    IN  [debug |-> debug_flag,
         use_reloader |-> use_reloader,
         threads |-> IF osenv.FLASK_TEST # "1" /\ should_start_thread THEN 1 ELSE 0]

\* app.run(..., use_reloader=...): with the reloader on, a process that is not
\* itself the reloader's child serves nothing; it starts a child with
\* WERKZEUG_RUN_MAIN=true and the same environment otherwise, which runs
\* main() again and serves.  This is the environment of the serving process.
serving_environ(osenv) ==
    IF main_flags(osenv).use_reloader /\ osenv.WERKZEUG_RUN_MAIN # "true"
    THEN [osenv EXCEPT !.WERKZEUG_RUN_MAIN = "true"]
    ELSE osenv

\* The environments the program is started in by a user: the reloader's
\* variable is not set.
StartEnvirons ==
    [FLASK_TEST : {Unset, "0", "1"},
     FLASK_DEBUG : {Unset, "0", "1"},
     FLASK_USE_RELOADER : {Unset, "0", "1"},
     WERKZEUG_RUN_MAIN : {Unset}]

\* The program is started: main() runs, and again in the reloader's child.
CallMain ==
    /\ \E osenv \in StartEnvirons :
         /\ call' = [fn |-> "main", args |-> <<osenv>>]
         /\ answer' = [started |-> main_flags(osenv),
                       serving |-> main_flags(serving_environ(osenv)),
                       child |-> serving_environ(osenv) # osenv]
    /\ PureFrame

\* The functions specification: a caller applies the registry query and the
\* version helpers to one input after another.
InitPure ==
    /\ platform \in {"Windows", "Darwin", "Linux"}
    /\ StatusQuiet
    /\ EnvQuiet
    /\ FsQuiet
    /\ PureQuiet
    /\ FixQuiet

NextPure ==
    \/ CallGetNpmLatestVersion
    \/ CallCompareSemver
    \/ CallExtractSemver
    \/ CallMain

SpecPure == InitPure /\ [][NextPure]_vars

(***************************************************************************)
(* Claims about the functions                                              *)
(***************************************************************************)

\* The outcomes C13 lists: a network error, a timeout, a connection reset, a
\* body that is not JSON, JSON that is not an object, a missing dist-tags or
\* latest field.
NpmFailure(o) ==
    \/ o.stage # "body"
    \/ json_loads(o.body).raised
    \/ json_loads(o.body).value.kind # "dict"
    \/ "dist-tags" \notin DOMAIN json_loads(o.body).value.items
    \/ LET tags == json_loads(o.body).value.items["dist-tags"]
       IN  tags.kind = "dict" /\ "latest" \notin DOMAIN tags.items

\* C13: get_npm_latest_version never raises, and for a network error, a
\* timeout, a connection reset, a non-JSON body, JSON that is not an object or
\* a missing dist-tags/latest field it returns the empty string.
C13_OracleNeverRaises ==
    call.fn = "get_npm_latest_version" =>
        /\ ~answer.raised
        /\ NpmFailure(call.args[1]) => answer.value = PyStr("")

\* C14: compare_semver is a total order over its inputs: comparing b with a
\* gives the opposite of comparing a with b, and a <= b with b <= c gives
\* a <= c, for numeric versions, the empty string and strings that take the
\* lexicographic fallback.
C14_CompareIsTotalOrder ==
    call.fn = "compare_semver" =>
        LET a == call.args[1]
            b == call.args[2]
        IN  /\ answer = 0 - compare_semver(b, a)
            /\ \A c \in Versions :
                   answer <= 0 /\ compare_semver(b, c) <= 0 => compare_semver(a, c) <= 0

\* A version made of numeric components: digits, separated by dots.
IsNumericVersion(v) ==
    /\ v # ""
    /\ \A i \in 1..Len(v) : IsDigit(CharAt(v, i)) \/ CharAt(v, i) = "."
    /\ ~IsDigit(".")
    /\ CharAt(v, 1) # "." /\ CharAt(v, Len(v)) # "."
    /\ ~Contains(v, "..")

\* The components of a numeric version as integers.
Components(v) == LET parts == Split(v, ".") IN [i \in DOMAIN parts |-> DigitsValue(parts[i])]

Sign(n) == IF n < 0 THEN -1 ELSE IF n > 0 THEN 1 ELSE 0

\* The sign of the left-to-right comparison of the components, the longer
\* version greater when the shared components are equal.
ComponentOrder(a, b) ==
    LET ca == Components(a)
        cb == Components(b)
        shared == (DOMAIN ca) \cap (DOMAIN cb)
        differ == {i \in shared : ca[i] # cb[i]}
    IN  IF differ # {}
        THEN LET i == CHOOSE k \in differ : \A j \in differ : k <= j
             IN  Sign(ca[i] - cb[i])
        ELSE Sign(Len(ca) - Len(cb))

\* C15: on versions made of numeric components compare_semver is the sign of
\* the left-to-right comparison of the components as integers, the longer
\* version greater when the shared components are equal (1.3.0 > 1.2.10,
\* 2.0.0 > 1.10.10); the empty string is below every non-empty version and
\* equal to itself.
C15_CompareIsNumeric ==
    call.fn = "compare_semver" =>
        LET a == call.args[1]
            b == call.args[2]
        IN  /\ IsNumericVersion(a) /\ IsNumericVersion(b) => answer = ComponentOrder(a, b)
            /\ a = "1.3.0" /\ b = "1.2.10" => answer = 1
            /\ a = "2.0.0" /\ b = "1.10.10" => answer = 1
            /\ a = "" /\ b # "" => answer = -1
            /\ a # "" /\ b = "" => answer = 1
            /\ a = "" /\ b = "" => answer = 0

C15_Witness ==
    /\ call = [fn |-> "compare_semver", args |-> <<"10.0", "9.0">>]
    /\ answer = 1

\* s has the form <digits>.<digits>.<digits>.
IsSemverForm(s) ==
    LET parts == Split(s, ".")
    IN  /\ Len(parts) = 3
        /\ \A i \in 1..3 :
               parts[i] # "" /\ \A k \in 1..Len(parts[i]) : IsDigit(CharAt(parts[i], k))

\* The places of text where a substring of that form starts.
FormStarts(text) ==
    {i \in 1..Len(text) : \E j \in i..Len(text) : IsSemverForm(SubSeq(text, i, j))}

\* C16: extract_semver returns, as it stands in the text, the leftmost
\* substring of the form <digits>.<digits>.<digits>, whatever surrounds it,
\* and the empty string exactly when the text holds no such substring.
C16_ExtractLeftmost ==
    call.fn = "extract_semver" =>
        LET text == call.args[1]
        IN  /\ answer = "" <=> FormStarts(text) = {}
            /\ answer # "" =>
                   /\ IsSemverForm(answer)
                   /\ \E i \in FormStarts(text) :
                          /\ \A j \in FormStarts(text) : i <= j
                          /\ SubSeq(text, i, i + Len(answer) - 1) = answer

C16_Witness ==
    /\ call = [fn |-> "extract_semver", args |-> <<"a1.2.3b4.5.6">>]
    /\ answer = "1.2.3"

(***************************************************************************)
(* Claims about the cache and the status record                            *)
(***************************************************************************)

\* C1: cache staleness protection.  Under every interleaving of refresher
\* cycles and status calls, a cached value that is non-empty never becomes
\* empty, and when a cycle ends (the refresher goes to sleep) the cache holds
\* the most recent non-empty result the oracle gave the refresher; a cycle
\* with an empty result, or with an exception, leaves it as it was.
C1_CacheNeverBlanked ==
    [][ /\ (cache # "" => cache' # "")
        /\ (rpc' = "sleep" => cache' = lastNonEmpty')
        /\ (rpc = "store" /\ rlatest = "" => cache' = cache) ]_vars

\* C1 witness: a cycle whose oracle result was empty has ended with an
\* earlier version still cached.
C1_Witness == rpc = "sleep" /\ rlatest = "" /\ cache = "1.0.5" /\ lastNonEmpty = "1.0.5"

\* C2: in every record get_claude_code_status returns, needs_upgrade is true
\* only if both versions are non-empty and the current one compares below the
\* latest one; it is false when the tool is not installed.
C2_NeedsUpgradeOnlyIfOlder ==
    spc = "done" /\ status.needs_upgrade =>
        /\ status.installed
        /\ status.current_version # ""
        /\ status.latest_version # ""
        /\ compare_semver(status.current_version, status.latest_version) < 0

\* C2 witness: a record that asks for an upgrade, and whose versions compare
\* as numbers, not as strings ("1.0.9" is below "1.0.15").
C2_Witness ==
    /\ spc = "done"
    /\ status.needs_upgrade
    /\ status.current_version = "1.0.9"
    /\ status.latest_version = "1.0.15"

C4_LatestFromCacheElseOracle ==
    /\ oracleCalls <= 1
    /\ oracleCalls = 1 => cacheAtRead = "" /\ readValue = ""
    /\ spc = "done" =>
         /\ status.latest_version = (IF readValue # "" THEN readValue ELSE oracleGot)
         /\ cacheAtRead # "" /\ forced = "" => status.latest_version = cacheAtRead
         /\ readValue = "" <=> oracleCalls = 1

\* C4 witness: a record of a not-installed tool whose latest version came from
\* the fallback query, the cache being empty.
C4_Witness ==
    /\ spc = "done"
    /\ ~status.installed
    /\ oracleCalls = 1
    /\ status.latest_version = "1.0.15"

\* C20: no core operation blocks indefinitely: a get_claude_code_status call
\* that has begun its command probes returns to its caller (with a record or
\* with an exception), even when a probed command never exits.
C20_StatusReturns == (spc = "cli") ~> (spc \in {"done", "raised"})


\* The places in the probe list of the probes that exit 0 with output.
GoodProbes ==
    LET cmds == commands_to_try(cliEnv.path)
    IN  {i \in DOMAIN cmds :
            /\ cmds[i] \in DOMAIN cliEnv.answers
            /\ cliEnv.answers[cmds[i]].code = 0
            /\ cliEnv.answers[cmds[i]].out # ""}

\* The output of the earliest of them.
EarliestGoodOutput ==
    LET cmds == commands_to_try(cliEnv.path)
        i == CHOOSE k \in GoodProbes : \A j \in GoodProbes : k <= j
    IN  cliEnv.answers[cmds[i]].out

\* C21: get_cli_claude_code_version goes through the whole probe list in
\* order, resolved path or not: once it has returned, installed is true
\* exactly when some probe of the list exits 0 with output, the version comes
\* from the earliest such probe (a failing probe only passes to the next), and
\* the result is (False, "") when every probe fails.
C21_ProbesInOrder ==
    spc \in {"ext", "cache", "oracle", "build", "done", "raised"} =>
        /\ cliRes[1] <=> GoodProbes # {}
        /\ GoodProbes # {} =>
               cliRes[2] = IF extract_semver(EarliestGoodOutput) # ""
                           THEN extract_semver(EarliestGoodOutput)
                           ELSE Strip(EarliestGoodOutput)
        /\ GoodProbes = {} => cliRes = <<FALSE, "">>

C21_Witness ==
    /\ spc = "cache"
    /\ cliEnv.path = ClaudeAbsPath
    /\ GoodProbes # {}
    /\ \A i \in GoodProbes : i > 2
    /\ cliRes = <<TRUE, "1.0.15">>


\* The stripped lines of the extension listing that name the identifier id.
LinesFor(id) ==
    LET lines == Split(extEnv.out, "\n")
    IN  {Strip(lines[i]) : i \in {k \in DOMAIN lines : StartsWith(Strip(lines[k]), id \o "@")}}

\* C22: extension detection honours the preference order of the identifiers:
\* when the listing has a line for anthropic.claude-code and one for
\* anthropic.claude, the result names anthropic.claude-code with its version,
\* whatever the order of the lines; with neither, or when the command fails,
\* the result is (False, "", "").
C22_PreferenceOrder ==
    extCalls > 0 =>
        /\ (extEnv.code = 0 /\ LinesFor("anthropic.claude-code") # {}
                /\ LinesFor("anthropic.claude") # {}) =>
               /\ extRes[1]
               /\ extRes[2] = "anthropic.claude-code"
               /\ ("anthropic.claude-code@" \o extRes[3]) \in LinesFor("anthropic.claude-code")
        /\ (extEnv.code # 0 \/ (LinesFor("anthropic.claude-code") = {}
                /\ LinesFor("anthropic.claude") = {})) =>
               extRes = <<FALSE, "", "">>


\* C25: outside test mode, for every combination of the debug and reloader
\* settings, the process that serves requests runs exactly one refresher
\* thread; in test mode (FLASK_TEST=1) none is started.
C25_OneRefresherThread ==
    call.fn = "main" =>
        IF call.args[1].FLASK_TEST = "1"
        THEN answer.started.threads = 0 /\ answer.serving.threads = 0
        ELSE answer.serving.threads = 1


\* The versions the oracle hands to the refresher.
OracleVersions == {o.value : o \in {x \in OracleOutcomes : ~x.raised /\ x.value # ""}}

\* C26: the refresher keeps cycling for the lifetime of the process: a cycle in
\* which the oracle fails, returns empty or raises does not end the loop (the
\* thread is at the oracle call again and again), and once the oracle has
\* returned a non-empty version v to the refresher the cache holds v, which a
\* read without override gives back.
C26_RefresherKeepsCycling ==
    /\ []<>(rpc = "query")
    /\ \A v \in OracleVersions :
           (rpc = "store" /\ rlatest = v) ~>
               (cache = v /\ (forced = "" => get_cached_latest_version = v))

\* A cycle in which the oracle returned 1.0.15, after one that had stored
\* 1.0.5 and one that returned nothing, has ended: the cache reads back 1.0.15.
C26_Witness ==
    /\ rpc = "sleep"
    /\ rlatest = "1.0.15"
    /\ cache = "1.0.15"
    /\ forced = ""
    /\ get_cached_latest_version = "1.0.15"


\* C29: for any interleaving of two concurrent apply_env_settings calls with
\* different profiles, once both have returned the process environment's
\* (ANTHROPIC_BASE_URL, ANTHROPIC_AUTH_TOKEN) pair is the pair of one of the
\* two calls, never the base URL of one with the token of the other.
C29_EnvironPairOfOneCall ==
    (/\ \A t \in Threads : epc[t] = "done"
     /\ ereq[1] # ereq[2]) =>
        \E t \in Threads : environ = PairOf(ereq[t])

=============================================================================
